---------------------------- MODULE Spec2Model ----------------------------
(***************************************************************************)
(* A model of the tiny8 instruction-dispatch core: Memory (memory.py) and  *)
(* CPU (cpu.py).  The CPU is modelled as a record `s` of its fields; every *)
(* accessor and every op_<mnemonic> handler is an operator from records to *)
(* records, translated statement by statement.  A Python exception is the  *)
(* field `err` of the record: the record then holds exactly the fields the *)
(* handler had assigned before the raise.  The actions LoadProgram, Step   *)
(* and Run install the record computed by load_program, step and run.      *)
(***************************************************************************)
EXTENDS Integers, Sequences, FiniteSets, TLC

VARIABLES
    regs,        \* CPU.regs: 32 registers
    ram,         \* Memory.ram
    sreg,        \* CPU.sreg
    pc,          \* CPU.pc
    sp,          \* CPU.sp
    step_count,  \* CPU.step_count
    reg_trace,   \* CPU.reg_trace
    mem_trace,   \* CPU.mem_trace
    step_trace,  \* CPU.step_trace
    ram_changes, \* Memory.ram_changes
    rom,         \* Memory.rom
    rom_changes, \* Memory.rom_changes
    program,     \* CPU.program
    labels,      \* CPU.labels
    running,     \* CPU.running
    interrupts,  \* CPU.interrupts: vector -> enabled
    last,        \* the last call made on the CPU, its argument and its outcome
    calls,       \* history: the CALL/RCALL executions that have not returned yet
    stacked,     \* history: bytes pushed minus bytes popped by completed calls
    loads,       \* history: number of load_program (load_rom) calls so far
    faults       \* history: number of calls that raised an exception so far

vars == <<regs, ram, sreg, pc, sp, step_count, reg_trace, mem_trace, step_trace,
          ram_changes, rom, rom_changes, program, labels, running, interrupts,
          last, calls, stacked, loads, faults>>

-----------------------------------------------------------------------------
(* Bounds of the model *)

\* Memory(ram_size=...): the RAM size the CPU is constructed with
RamSize == 8
\* Step and Run are disabled once step_count would pass MaxSteps
MaxSteps == 5
\* largest max_steps argument handed to run()
MaxRun == 3
\* number of load_program calls in one behaviour
MaxLoads == 2
\* number of calls that raise an exception in one behaviour
MaxFaults == 2
\* longest sequence of PUSH instructions followed by as many POP instructions
MaxPush == 3
\* number of register writes that change a register in one behaviour
MaxWrites == 2
\* cells of ROM (Memory.rom_size)
RomSize == 2
\* largest iteration count of the counting loop, besides the largest byte
MaxCount == 5

(* Program constants *)
NumRegs == 32
SREG_I == 7
SREG_T == 6
SREG_H == 5
SREG_S == 4
SREG_V == 3
SREG_N == 2
SREG_Z == 1
SREG_C == 0

-----------------------------------------------------------------------------
(* Python integer operators on the values the core uses *)

Pow2(n) == 2 ^ n

\* x >> n  (floor division, also for negative x)
Shr(x, n) == x \div Pow2(n)

\* x & 0xFF, x & 0xFFFF  (two's complement: the residue mod 2^w)
Mask8(x) == x % 256
Mask16(x) == x % 65536

RECURSIVE BitAnd(_, _)
\* a & b for a, b >= 0
BitAnd(a, b) ==
    IF a = 0 \/ b = 0 THEN 0
    ELSE (a % 2) * (b % 2) + 2 * BitAnd(a \div 2, b \div 2)

RECURSIVE BitOr(_, _)
\* a | b for a, b >= 0
BitOr(a, b) ==
    IF a = 0 THEN b
    ELSE IF b = 0 THEN a
    ELSE (IF a % 2 = 1 \/ b % 2 = 1 THEN 1 ELSE 0) + 2 * BitOr(a \div 2, b \div 2)

RECURSIVE BitXor(_, _)
\* a ^ b for a, b >= 0
BitXor(a, b) ==
    IF a = 0 THEN b
    ELSE IF b = 0 THEN a
    ELSE ((a + b) % 2) + 2 * BitXor(a \div 2, b \div 2)

\* bit n of x
Bit(x, n) == Shr(x, n) % 2

-----------------------------------------------------------------------------
(* The CPU record and Python's exceptions *)

Raise(s, e) == [s EXCEPT !.err = e]

\* list indexing self.regs[r]: Python accepts -32..31, a negative index
\* counting from the end, and raises IndexError otherwise
RegOk(r) == r >= -NumRegs /\ r < NumRegs
RegIdx(r) == IF r < 0 THEN r + NumRegs ELSE r

\* Memory.read_ram / Memory.write_ram bounds check
RamOk(addr) == ~(addr < 0 \/ addr >= RamSize)

get_flag(s, bit) == (Shr(s.sreg, bit) % 2) = 1

set_flag(s, bit, value) ==
    IF value
    THEN [s EXCEPT !.sreg = IF Bit(s.sreg, bit) = 1 THEN @ ELSE @ + Pow2(bit)]
    ELSE [s EXCEPT !.sreg = IF Bit(s.sreg, bit) = 1 THEN @ - Pow2(bit) ELSE @]

read_reg(s, r) == s.regs[RegIdx(r)] % 256

\* variant: a trace entry for every write, changed or not
write_reg_AlwaysTrace(s, r, val) ==
    IF s.err # "none" THEN s
    ELSE IF ~RegOk(r) THEN Raise(s, "IndexError")
    ELSE LET newv == Mask8(val) IN
         [s EXCEPT !.regs[RegIdx(r)] = newv,
                   !.reg_trace = Append(@, <<s.step_count, r, newv>>)]

write_reg(s, r, val) ==
    IF s.err # "none" THEN s
    ELSE IF ~RegOk(r) THEN Raise(s, "IndexError")
    ELSE LET newv == Mask8(val) IN
         IF s.regs[RegIdx(r)] # newv
         THEN [s EXCEPT !.regs[RegIdx(r)] = newv,
                        !.reg_trace = Append(@, <<s.step_count, r, newv>>)]
         ELSE s

read_ram(s, addr) == s.ram[addr]

mem_write_ram_AlwaysLogs(s, addr, value, cycle) ==
    IF ~RamOk(addr) THEN Raise(s, "IndexError")
    ELSE LET old == s.ram[addr]
             new == Mask8(value)
         IN [s EXCEPT !.ram[addr] = new,
                      !.ram_changes = Append(@, <<addr, old, new, cycle>>)]

mem_write_ram_NoMask(s, addr, value, cycle) ==
    IF ~RamOk(addr) THEN Raise(s, "IndexError")
    ELSE LET old == s.ram[addr]
             new == value
         IN [s EXCEPT !.ram[addr] = new,
                      !.ram_changes = IF old # new
                                      THEN Append(@, <<addr, old, new, cycle>>)
                                      ELSE @]

\* Memory.write_ram(addr, value, cycle)
mem_write_ram(s, addr, value, cycle) ==
    IF ~RamOk(addr) THEN Raise(s, "IndexError")
    ELSE LET old == s.ram[addr]
             new == Mask8(value)
         IN [s EXCEPT !.ram[addr] = new,
                      !.ram_changes = IF old # new
                                      THEN Append(@, <<addr, old, new, cycle>>)
                                      ELSE @]

\* Memory.read_ram(addr) called on the memory itself: the byte read is left
\* in ret
mem_read_ram(s, addr) ==
    IF ~RamOk(addr) THEN Raise(s, "IndexError")
    ELSE [s EXCEPT !.ret = s.ram[addr]]

RomOk(addr) == ~(addr < 0 \/ addr >= RomSize)

\* Memory.read_rom(addr)
read_rom(s, addr) ==
    IF ~RomOk(addr) THEN Raise(s, "IndexError")
    ELSE [s EXCEPT !.ret = s.rom[addr]]

\* for i, v in enumerate(data): the element data[i] of the model's 1-based
\* sequence goes to rom[i - 1]
RECURSIVE LoadRomLoop(_, _, _)
LoadRomLoop(s, data, i) ==
    IF i > Len(data) THEN s
    ELSE LET old == s.rom[i - 1]
             new == Mask8(data[i])
         IN LoadRomLoop([s EXCEPT !.rom[i - 1] = new,
                                  !.rom_changes = IF old # new
                                                  THEN Append(@, <<i - 1, old, new, 0>>)
                                                  ELSE @],
                        data, i + 1)

load_rom_WritesPrefix(s, data) ==
    IF Len(data) > RomSize
    THEN Raise(LoadRomLoop(s, SubSeq(data, 1, RomSize), 1), "ValueError")
    ELSE LoadRomLoop(s, data, 1)

\* Memory.load_rom(data)
load_rom(s, data) ==
    IF Len(data) > RomSize THEN Raise(s, "ValueError")
    ELSE LoadRomLoop(s, data, 1)

\* self.mem_trace.append((self.step_count, addr, val & 0xFF)), reached only
\* when Memory.write_ram returned
MemTraceAppend(s, addr, val) ==
    IF s.err # "none" THEN s
    ELSE [s EXCEPT !.mem_trace = Append(@, <<s.step_count, addr, Mask8(val)>>)]

\* CPU.write_ram(addr, val)
write_ram(s, addr, val) ==
    IF s.err # "none" THEN s
    ELSE MemTraceAppend(mem_write_ram(s, addr, val, s.step_count), addr, val)

-----------------------------------------------------------------------------
(* Flag helpers *)

SetCHNVSZ(s, c, h, n, v, sf, z) ==
    set_flag(set_flag(set_flag(set_flag(set_flag(set_flag(s,
        SREG_C, c = 1), SREG_H, h = 1), SREG_N, n = 1), SREG_V, v = 1),
        SREG_S, sf = 1), SREG_Z, z = 1)

\* variant: the half carry computed without the carry-in
set_flags_add_HalfNoCarry(s, a, b, carry_in, result) ==
    LET r == Mask8(result)
        c == Shr(result, 8) % 2
        h == Shr((a % 16) + (b % 16), 4) % 2
        n == Shr(r, 7) % 2
        v == IF BitAnd(BitAnd(255 - BitXor(a, b), BitXor(a, r)), 128) # 0 THEN 1 ELSE 0
        sf == (n + v) % 2
        z == IF r = 0 THEN 1 ELSE 0
    IN SetCHNVSZ(s, c, h, n, v, sf, z)

set_flags_add(s, a, b, carry_in, result) ==
    LET r == Mask8(result)
        c == Shr(result, 8) % 2
        h == Shr((a % 16) + (b % 16) + carry_in, 4) % 2
        n == Shr(r, 7) % 2
        v == IF BitAnd(BitAnd(255 - BitXor(a, b), BitXor(a, r)), 128) # 0 THEN 1 ELSE 0
        sf == (n + v) % 2
        z == IF r = 0 THEN 1 ELSE 0
    IN SetCHNVSZ(s, c, h, n, v, sf, z)

\* variant: the borrow out computed without the borrow-in
set_flags_sub_CarryNoBorrow(s, a, b, borrow_in, result) ==
    LET r == Mask8(result)
        c == IF (a - b) < 0 THEN 1 ELSE 0
        h == IF ((a % 16) - (b % 16) - borrow_in) < 0 THEN 1 ELSE 0
        n == Shr(r, 7) % 2
        v == IF BitAnd(BitAnd(BitXor(a, b), BitXor(a, r)), 128) # 0 THEN 1 ELSE 0
        sf == (n + v) % 2
        z == IF r = 0 THEN 1 ELSE 0
    IN SetCHNVSZ(s, c, h, n, v, sf, z)

set_flags_sub_NFromA(s, a, b, borrow_in, result) ==
    LET r == Mask8(result)
        c == IF (a - b - borrow_in) < 0 THEN 1 ELSE 0
        h == IF ((a % 16) - (b % 16) - borrow_in) < 0 THEN 1 ELSE 0
        n == Shr(a, 7) % 2
        v == IF BitAnd(BitAnd(BitXor(a, b), BitXor(a, r)), 128) # 0 THEN 1 ELSE 0
        sf == (n + v) % 2
        z == IF r = 0 THEN 1 ELSE 0
    IN SetCHNVSZ(s, c, h, n, v, sf, z)

set_flags_sub(s, a, b, borrow_in, result) ==
    LET r == Mask8(result)
        c == IF (a - b - borrow_in) < 0 THEN 1 ELSE 0
        h == IF ((a % 16) - (b % 16) - borrow_in) < 0 THEN 1 ELSE 0
        n == Shr(r, 7) % 2
        v == IF BitAnd(BitAnd(BitXor(a, b), BitXor(a, r)), 128) # 0 THEN 1 ELSE 0
        sf == (n + v) % 2
        z == IF r = 0 THEN 1 ELSE 0
    IN SetCHNVSZ(s, c, h, n, v, sf, z)

set_flags_logical_KeepsCarry(s, result) ==
    LET r == Mask8(result)
        n == Shr(r, 7) % 2
        z == IF r = 0 THEN 1 ELSE 0
    IN set_flag(set_flag(set_flag(set_flag(set_flag(s,
           SREG_V, FALSE), SREG_N, n = 1), SREG_S, n = 1),
           SREG_Z, z = 1), SREG_H, FALSE)

set_flags_logical(s, result) ==
    LET r == Mask8(result)
        n == Shr(r, 7) % 2
        z == IF r = 0 THEN 1 ELSE 0
        sf == n
    IN set_flag(set_flag(set_flag(set_flag(set_flag(set_flag(s,
           SREG_C, FALSE), SREG_V, FALSE), SREG_N, n = 1), SREG_S, sf = 1),
           SREG_Z, z = 1), SREG_H, FALSE)

set_flags_inc(s, old, new) ==
    LET n == Shr(new, 7) % 2
        v == IF old = 127 THEN 1 ELSE 0
        z == IF new = 0 THEN 1 ELSE 0
        sf == (n + v) % 2
    IN set_flag(set_flag(set_flag(set_flag(s,
           SREG_N, n = 1), SREG_V, v = 1), SREG_S, sf = 1), SREG_Z, z = 1)

set_flags_dec(s, old, new) ==
    LET n == Shr(new, 7) % 2
        v == IF old = 128 THEN 1 ELSE 0
        z == IF new = 0 THEN 1 ELSE 0
        sf == (n + v) % 2
    IN set_flag(set_flag(set_flag(set_flag(s,
           SREG_N, n = 1), SREG_V, v = 1), SREG_S, sf = 1), SREG_Z, z = 1)

set_flags_add16(s, a, b, carry_in, result) ==
    LET r == Mask16(result)
        c == Shr(result, 16) % 2
        n == Shr(r, 15) % 2
        v == IF BitAnd(BitAnd(65535 - BitXor(a, b), BitXor(a, r)), 32768) # 0 THEN 1 ELSE 0
        sf == (n + v) % 2
        z == IF r = 0 THEN 1 ELSE 0
    IN set_flag(set_flag(set_flag(set_flag(set_flag(set_flag(s,
           SREG_C, c = 1), SREG_N, n = 1), SREG_V, v = 1), SREG_S, sf = 1),
           SREG_Z, z = 1), SREG_H, FALSE)

set_flags_sub16(s, a, b, borrow_in, result) ==
    LET r == Mask16(result)
        c == IF (a - b - borrow_in) < 0 THEN 1 ELSE 0
        n == Shr(r, 15) % 2
        v == IF BitAnd(BitAnd(BitXor(a, b), BitXor(a, r)), 32768) # 0 THEN 1 ELSE 0
        sf == (n + v) % 2
        z == IF r = 0 THEN 1 ELSE 0
    IN set_flag(set_flag(set_flag(set_flag(set_flag(set_flag(s,
           SREG_C, c = 1), SREG_N, n = 1), SREG_V, v = 1), SREG_S, sf = 1),
           SREG_Z, z = 1), SREG_H, FALSE)

-----------------------------------------------------------------------------
(* Operands.  The assembler emits ("reg", N) for a register, an int for a  *)
(* number and a str for a symbol; step() decodes ("reg", N) to the int N.  *)

R(n) == [k |-> "reg", n |-> n, s |-> ""]
K(n) == [k |-> "int", n |-> n, s |-> ""]
L(x) == [k |-> "str", n |-> 0, s |-> x]

Ins(m, ops) == [instr |-> m, operands |-> ops]

\* decoded_ops of step()
Decode(o) == IF o.k = "reg" THEN K(o.n) ELSE o

-----------------------------------------------------------------------------
(* Instruction handlers: data movement and arithmetic *)

op_nop(s) == s

op_ldi(s, reg_idx, imm) == write_reg(s, reg_idx, imm)

op_mov_SetsFlags(s, rd, rr) ==
    IF ~RegOk(rr) THEN Raise(s, "IndexError")
    ELSE set_flags_logical(write_reg(s, rd, read_reg(s, rr)), read_reg(s, rr))

op_mov(s, rd, rr) ==
    IF ~RegOk(rr) THEN Raise(s, "IndexError")
    ELSE write_reg(s, rd, read_reg(s, rr))

op_add(s, rd, rr) ==
    IF ~RegOk(rd) \/ ~RegOk(rr) THEN Raise(s, "IndexError")
    ELSE LET a == read_reg(s, rd)
             b == read_reg(s, rr)
             res == a + b
         IN set_flags_add(write_reg(s, rd, Mask8(res)), a, b, 0, res)

op_and(s, rd, rr) ==
    IF ~RegOk(rd) \/ ~RegOk(rr) THEN Raise(s, "IndexError")
    ELSE LET res == BitAnd(read_reg(s, rd), read_reg(s, rr))
         IN set_flags_logical(write_reg(s, rd, res), res)

op_or(s, rd, rr) ==
    IF ~RegOk(rd) \/ ~RegOk(rr) THEN Raise(s, "IndexError")
    ELSE LET res == BitOr(read_reg(s, rd), read_reg(s, rr))
         IN set_flags_logical(write_reg(s, rd, res), res)

op_eor(s, rd, rr) ==
    IF ~RegOk(rd) \/ ~RegOk(rr) THEN Raise(s, "IndexError")
    ELSE LET res == BitXor(read_reg(s, rd), read_reg(s, rr))
         IN set_flags_logical(write_reg(s, rd, res), res)

op_sub_Borrowing(s, rd, rr) ==
    IF ~RegOk(rd) \/ ~RegOk(rr) THEN Raise(s, "IndexError")
    ELSE LET a == read_reg(s, rd)
             b == read_reg(s, rr)
             res_full == a - b - 1
         IN set_flags_sub(write_reg(s, rd, Mask8(res_full)), a, b, 1, res_full)

op_sub(s, rd, rr) ==
    IF ~RegOk(rd) \/ ~RegOk(rr) THEN Raise(s, "IndexError")
    ELSE LET a == read_reg(s, rd)
             b == read_reg(s, rr)
             res_full == a - b
         IN set_flags_sub(write_reg(s, rd, Mask8(res_full)), a, b, 0, res_full)

\* variant: INC done as ADD 1, with the flags of an addition
op_inc_AsAdd(s, rd) ==
    IF ~RegOk(rd) THEN Raise(s, "IndexError")
    ELSE LET old == read_reg(s, rd)
             new == Mask8(old + 1)
         IN set_flags_add(write_reg(s, rd, new), old, 1, 0, old + 1)

op_inc(s, rd) ==
    IF ~RegOk(rd) THEN Raise(s, "IndexError")
    ELSE LET old == read_reg(s, rd)
             new == Mask8(old + 1)
         IN set_flags_inc(write_reg(s, rd, new), old, new)

op_dec(s, rd) ==
    IF ~RegOk(rd) THEN Raise(s, "IndexError")
    ELSE LET old == read_reg(s, rd)
             new == Mask8(old - 1)
         IN set_flags_dec(write_reg(s, rd, new), old, new)

\* variant: C taken from bit 15 of the product
op_mul_CarryBit15(s, rd, rr) ==
    IF ~RegOk(rd) \/ ~RegOk(rr) THEN Raise(s, "IndexError")
    ELSE LET a == read_reg(s, rd)
             b == read_reg(s, rr)
             prod == a * b
             low == Mask8(prod)
             high == Mask8(Shr(prod, 8))
             s1 == write_reg(s, rd, low)
             s2 == IF rd + 1 < 32 THEN write_reg(s1, rd + 1, high) ELSE s1
         IN set_flag(set_flag(set_flag(s2, SREG_Z, prod = 0), SREG_C, Bit(prod, 15) = 1),
                     SREG_H, FALSE)

op_mul(s, rd, rr) ==
    IF ~RegOk(rd) \/ ~RegOk(rr) THEN Raise(s, "IndexError")
    ELSE LET a == read_reg(s, rd)
             b == read_reg(s, rr)
             prod == a * b
             low == Mask8(prod)
             high == Mask8(Shr(prod, 8))
             s1 == write_reg(s, rd, low)
             s2 == IF rd + 1 < 32 THEN write_reg(s1, rd + 1, high) ELSE s1
         IN set_flag(set_flag(set_flag(s2, SREG_Z, prod = 0), SREG_C, high # 0),
                     SREG_H, FALSE)

op_adc(s, rd, rr) ==
    IF ~RegOk(rd) \/ ~RegOk(rr) THEN Raise(s, "IndexError")
    ELSE LET a == read_reg(s, rd)
             b == read_reg(s, rr)
             carry_in == IF get_flag(s, SREG_C) THEN 1 ELSE 0
             res == a + b + carry_in
         IN set_flags_add(write_reg(s, rd, Mask8(res)), a, b, carry_in, res)

op_clr_KeepsS(s, rd) ==
    LET s1 == write_reg(s, rd, 0) IN
    IF s1.err # "none" THEN s1
    ELSE set_flag(set_flag(set_flag(set_flag(set_flag(s1,
             SREG_N, FALSE), SREG_V, FALSE), SREG_Z, TRUE),
             SREG_C, FALSE), SREG_H, FALSE)

op_clr(s, rd) ==
    LET s1 == write_reg(s, rd, 0) IN
    IF s1.err # "none" THEN s1
    ELSE set_flag(set_flag(set_flag(set_flag(set_flag(set_flag(s1,
             SREG_N, FALSE), SREG_V, FALSE), SREG_S, FALSE), SREG_Z, TRUE),
             SREG_C, FALSE), SREG_H, FALSE)

op_ser(s, rd) ==
    LET s1 == write_reg(s, rd, 255) IN
    IF s1.err # "none" THEN s1
    ELSE set_flag(set_flag(set_flag(set_flag(set_flag(set_flag(s1,
             SREG_N, TRUE), SREG_V, FALSE), SREG_S, TRUE), SREG_Z, FALSE),
             SREG_C, FALSE), SREG_H, FALSE)

\* variant: a division by zero that goes on to clear H and V
op_div_ZeroClearsHV(s, rd, rr) ==
    IF ~RegOk(rd) \/ ~RegOk(rr) THEN Raise(s, "IndexError")
    ELSE LET a == read_reg(s, rd)
             b == read_reg(s, rr)
         IN IF b = 0
            THEN set_flag(set_flag(set_flag(set_flag(write_reg(s, rd, 0),
                    SREG_C, TRUE), SREG_Z, TRUE), SREG_H, FALSE), SREG_V, FALSE)
            ELSE LET q == a \div b
                     r == a % b
                     s1 == write_reg(s, rd, q)
                     s2 == IF rd + 1 < 32 THEN write_reg(s1, rd + 1, r) ELSE s1
                 IN set_flag(set_flag(set_flag(set_flag(s2,
                        SREG_Z, q = 0), SREG_C, FALSE), SREG_H, FALSE), SREG_V, FALSE)

op_div(s, rd, rr) ==
    IF ~RegOk(rd) \/ ~RegOk(rr) THEN Raise(s, "IndexError")
    ELSE LET a == read_reg(s, rd)
             b == read_reg(s, rr)
         IN IF b = 0
            THEN set_flag(set_flag(write_reg(s, rd, 0), SREG_C, TRUE), SREG_Z, TRUE)
            ELSE LET q == a \div b
                     r == a % b
                     s1 == write_reg(s, rd, q)
                     s2 == IF rd + 1 < 32 THEN write_reg(s1, rd + 1, r) ELSE s1
                 IN set_flag(set_flag(set_flag(set_flag(s2,
                        SREG_Z, q = 0), SREG_C, FALSE), SREG_H, FALSE), SREG_V, FALSE)

op_in(s, rd, port) ==
    IF ~RamOk(port) THEN Raise(s, "IndexError")
    ELSE write_reg(s, rd, read_ram(s, port))

op_out(s, port, rr) ==
    IF ~RegOk(rr) THEN Raise(s, "IndexError")
    ELSE write_ram(s, port, read_reg(s, rr))

-----------------------------------------------------------------------------
(* Instruction handlers: jumps, compares, shifts, logic *)

\* label: a str is looked up in self.labels, an int is the address itself
op_jmp(s, label) ==
    IF s.err # "none" THEN s
    ELSE IF label.k = "str"
    THEN IF label.s \notin DOMAIN s.labels
         THEN Raise(s, "KeyError")
         ELSE [s EXCEPT !.pc = s.labels[label.s] - 1]
    ELSE [s EXCEPT !.pc = label.n - 1]

op_cpi(s, rd, imm) ==
    IF ~RegOk(rd) THEN Raise(s, "IndexError")
    ELSE LET a == read_reg(s, rd)
             b == Mask8(imm)
             res == a - b
         IN set_flags_sub(s, a, b, 0, res)

op_cp_KeepsResult(s, rd, rr) ==
    IF ~RegOk(rd) \/ ~RegOk(rr) THEN Raise(s, "IndexError")
    ELSE LET a == read_reg(s, rd)
             b == read_reg(s, rr)
             res == a - b
         IN set_flags_sub(write_reg(s, rd, Mask8(res)), a, b, 0, res)

op_cp(s, rd, rr) ==
    IF ~RegOk(rd) \/ ~RegOk(rr) THEN Raise(s, "IndexError")
    ELSE LET a == read_reg(s, rd)
             b == read_reg(s, rr)
             res == a - b
         IN set_flags_sub(s, a, b, 0, res)

op_lsl(s, rd) ==
    IF ~RegOk(rd) THEN Raise(s, "IndexError")
    ELSE LET v == read_reg(s, rd)
             carry == Shr(v, 7) % 2
             nv == Mask8(v * 2)
             n == Shr(nv, 7) % 2
             vflag == (n + carry) % 2
         IN set_flag(set_flag(set_flag(set_flag(set_flag(set_flag(
                write_reg(s, rd, nv),
                SREG_C, carry = 1), SREG_N, n = 1), SREG_V, vflag = 1),
                SREG_S, (n + vflag) % 2 = 1), SREG_Z, nv = 0), SREG_H, FALSE)

op_lsr(s, rd) ==
    IF ~RegOk(rd) THEN Raise(s, "IndexError")
    ELSE LET v == read_reg(s, rd)
             carry == v % 2
             nv == Mask8(Shr(v, 1))
         IN set_flag(set_flag(set_flag(set_flag(set_flag(set_flag(
                write_reg(s, rd, nv),
                SREG_C, carry = 1), SREG_N, FALSE), SREG_V, carry = 1),
                SREG_S, carry = 1), SREG_Z, nv = 0), SREG_H, FALSE)

op_rol(s, rd) ==
    IF ~RegOk(rd) THEN Raise(s, "IndexError")
    ELSE LET v == read_reg(s, rd)
             carry_in == IF get_flag(s, SREG_C) THEN 1 ELSE 0
             carry_out == Shr(v, 7) % 2
             nv == BitOr(Mask8(v * 2), carry_in)
         IN set_flag(set_flag(set_flag(set_flag(set_flag(set_flag(
                write_reg(s, rd, nv),
                SREG_C, carry_out = 1), SREG_N, Shr(nv, 7) % 2 = 1), SREG_Z, nv = 0),
                SREG_V, FALSE), SREG_S, Shr(nv, 7) % 2 = 1), SREG_H, FALSE)

op_ror_NoCarryIn(s, rd) ==
    IF ~RegOk(rd) THEN Raise(s, "IndexError")
    ELSE LET v == read_reg(s, rd)
             carry_out == v % 2
             nv == Shr(v, 1)
         IN set_flag(set_flag(set_flag(set_flag(set_flag(set_flag(
                write_reg(s, rd, nv),
                SREG_C, carry_out = 1), SREG_N, Shr(nv, 7) % 2 = 1), SREG_Z, nv = 0),
                SREG_V, FALSE), SREG_S, Shr(nv, 7) % 2 = 1), SREG_H, FALSE)

op_ror(s, rd) ==
    IF ~RegOk(rd) THEN Raise(s, "IndexError")
    ELSE LET v == read_reg(s, rd)
             carry_in == IF get_flag(s, SREG_C) THEN 1 ELSE 0
             carry_out == v % 2
             nv == BitOr(Shr(v, 1), carry_in * 128)
         IN set_flag(set_flag(set_flag(set_flag(set_flag(set_flag(
                write_reg(s, rd, nv),
                SREG_C, carry_out = 1), SREG_N, Shr(nv, 7) % 2 = 1), SREG_Z, nv = 0),
                SREG_V, FALSE), SREG_S, Shr(nv, 7) % 2 = 1), SREG_H, FALSE)

op_com(s, rd) ==
    IF ~RegOk(rd) THEN Raise(s, "IndexError")
    ELSE LET v == read_reg(s, rd)
             nv == 255 - v
             n == Shr(nv, 7) % 2
         IN set_flag(set_flag(set_flag(set_flag(set_flag(set_flag(
                write_reg(s, rd, nv),
                SREG_N, n = 1), SREG_V, FALSE), SREG_S, n = 1), SREG_Z, nv = 0),
                SREG_C, TRUE), SREG_H, FALSE)

op_neg(s, rd) ==
    IF ~RegOk(rd) THEN Raise(s, "IndexError")
    ELSE LET a == read_reg(s, rd)
             res_full == 0 - a
         IN set_flags_sub(write_reg(s, rd, Mask8(res_full)), 0, a, 0, res_full)

op_swap(s, rd) ==
    IF ~RegOk(rd) THEN Raise(s, "IndexError")
    ELSE LET v == read_reg(s, rd)
             nv == BitOr((v % 16) * 16, Shr(v, 4) % 16)
         IN write_reg(s, rd, nv)

op_tst(s, rd) ==
    IF ~RegOk(rd) THEN Raise(s, "IndexError")
    ELSE LET v == read_reg(s, rd)
             res == BitAnd(v, v)
         IN set_flags_logical(s, res)

op_andi(s, rd, imm) ==
    IF ~RegOk(rd) THEN Raise(s, "IndexError")
    ELSE LET res == BitAnd(read_reg(s, rd), Mask8(imm))
         IN set_flags_logical(write_reg(s, rd, res), res)

op_ori(s, rd, imm) ==
    IF ~RegOk(rd) THEN Raise(s, "IndexError")
    ELSE LET res == BitOr(read_reg(s, rd), Mask8(imm))
         IN set_flags_logical(write_reg(s, rd, res), res)

op_eori(s, rd, imm) ==
    IF ~RegOk(rd) THEN Raise(s, "IndexError")
    ELSE LET res == BitXor(read_reg(s, rd), Mask8(imm))
         IN set_flags_logical(write_reg(s, rd, res), res)

op_subi(s, rd, imm) ==
    IF ~RegOk(rd) THEN Raise(s, "IndexError")
    ELSE LET a == read_reg(s, rd)
             b == Mask8(imm)
             res_full == a - b
         IN set_flags_sub(write_reg(s, rd, Mask8(res_full)), a, b, 0, res_full)

op_sbc(s, rd, rr) ==
    IF ~RegOk(rd) \/ ~RegOk(rr) THEN Raise(s, "IndexError")
    ELSE LET a == read_reg(s, rd)
             b == read_reg(s, rr)
             borrow_in == IF get_flag(s, SREG_C) THEN 1 ELSE 0
             res_full == a - b - borrow_in
         IN set_flags_sub(write_reg(s, rd, Mask8(res_full)), a, b, borrow_in, res_full)

op_sbci(s, rd, imm) ==
    IF ~RegOk(rd) THEN Raise(s, "IndexError")
    ELSE LET a == read_reg(s, rd)
             b == Mask8(imm)
             borrow_in == IF get_flag(s, SREG_C) THEN 1 ELSE 0
             res_full == a - b - borrow_in
         IN set_flags_sub(write_reg(s, rd, Mask8(res_full)), a, b, borrow_in, res_full)

op_sei(s) == set_flag(s, SREG_I, TRUE)

op_cli(s) == set_flag(s, SREG_I, FALSE)

-----------------------------------------------------------------------------
(* Instruction handlers: skips, word arithmetic, relative jumps, bit I/O *)

\* variant: a skip that passes over two instructions
SkipIf_Two(s, cond) == IF cond THEN [s EXCEPT !.pc = @ + 2] ELSE s

\* if cond: self.pc += 1
SkipIf(s, cond) == IF cond THEN [s EXCEPT !.pc = @ + 1] ELSE s

op_cpse(s, rd, rr) ==
    IF ~RegOk(rd) \/ ~RegOk(rr) THEN Raise(s, "IndexError")
    ELSE LET a == read_reg(s, rd)
             b == read_reg(s, rr)
         IN SkipIf(set_flags_sub(s, a, b, 0, a - b), a = b)

op_sbrs(s, rd, bit) ==
    IF ~RegOk(rd) THEN Raise(s, "IndexError")
    ELSE LET v == read_reg(s, rd) IN SkipIf(s, Shr(v, bit % 8) % 2 = 1)

op_sbrc(s, rd, bit) ==
    IF ~RegOk(rd) THEN Raise(s, "IndexError")
    ELSE LET v == read_reg(s, rd) IN SkipIf(s, Shr(v, bit % 8) % 2 = 0)

op_sbis(s, io_addr, bit) ==
    IF ~RamOk(io_addr) THEN Raise(s, "IndexError")
    ELSE LET v == read_ram(s, io_addr) IN SkipIf(s, Shr(v, bit % 8) % 2 = 1)

op_sbic(s, io_addr, bit) ==
    IF ~RamOk(io_addr) THEN Raise(s, "IndexError")
    ELSE LET v == read_ram(s, io_addr) IN SkipIf(s, Shr(v, bit % 8) % 2 = 0)

op_sbiw(s, rd_word_low, imm_word) ==
    IF ~RegOk(rd_word_low) THEN Raise(s, "IndexError")
    ELSE LET lo == read_reg(s, rd_word_low)
             hi == IF rd_word_low + 1 < 32 THEN read_reg(s, rd_word_low + 1) ELSE 0
             word == BitOr(hi * 256, lo)
             new == Mask16(word - Mask16(imm_word))
             new_lo == Mask8(new)
             new_hi == Mask8(Shr(new, 8))
             s1 == write_reg(s, rd_word_low, new_lo)
             s2 == IF rd_word_low + 1 < 32
                   THEN write_reg(s1, rd_word_low + 1, new_hi) ELSE s1
         IN set_flags_sub16(s2, word, Mask16(imm_word), 0, word - Mask16(imm_word))

\* variant: ADIW that leaves the high register as it was
op_adiw_LowOnly(s, rd_word_low, imm_word) ==
    IF ~RegOk(rd_word_low) THEN Raise(s, "IndexError")
    ELSE LET lo == read_reg(s, rd_word_low)
             hi == IF rd_word_low + 1 < 32 THEN read_reg(s, rd_word_low + 1) ELSE 0
             word == BitOr(hi * 256, lo)
             new == Mask16(word + Mask16(imm_word))
             s1 == write_reg(s, rd_word_low, Mask8(new))
         IN set_flags_add16(s1, word, Mask16(imm_word), 0, word + Mask16(imm_word))

op_adiw(s, rd_word_low, imm_word) ==
    IF ~RegOk(rd_word_low) THEN Raise(s, "IndexError")
    ELSE LET lo == read_reg(s, rd_word_low)
             hi == IF rd_word_low + 1 < 32 THEN read_reg(s, rd_word_low + 1) ELSE 0
             word == BitOr(hi * 256, lo)
             new == Mask16(word + Mask16(imm_word))
             new_lo == Mask8(new)
             new_hi == Mask8(Shr(new, 8))
             s1 == write_reg(s, rd_word_low, new_lo)
             s2 == IF rd_word_low + 1 < 32
                   THEN write_reg(s1, rd_word_low + 1, new_hi) ELSE s1
         IN set_flags_add16(s2, word, Mask16(imm_word), 0, word + Mask16(imm_word))

\* an int operand is added to pc as it is; a str goes through op_jmp
\* variant: RJMP with the rule of RCALL, pc + k made the next instruction
op_rjmp_AsRcall(s, label) ==
    IF label.k = "int"
    THEN [s EXCEPT !.pc = s.pc + label.n - 1]
    ELSE op_jmp(s, label)

op_rjmp(s, label) ==
    IF label.k = "int"
    THEN [s EXCEPT !.pc = s.pc + label.n]
    ELSE op_jmp(s, label)

\* self.sp -= 1, reached only when the write before it returned
DecSp(s) == IF s.err # "none" THEN s ELSE [s EXCEPT !.sp = @ - 1]

\* self.write_ram(self.sp, val); self.sp -= 1
PushByte(s, val) == IF s.err # "none" THEN s ELSE DecSp(write_ram(s, s.sp, val))

\* variant: the low byte pushed first
PushRet_LowFirst(s, ret) == PushByte(PushByte(s, Mask8(ret)), Mask8(Shr(ret, 8)))

\* The two pushes of a return address: high byte at [sp], low byte at [sp-1]
PushRet(s, ret) == PushByte(PushByte(s, Mask8(Shr(ret, 8))), Mask8(ret))

\* the target of RCALL once the return address is pushed
RcallJump(s, label) ==
    IF s.err # "none" THEN s
    ELSE IF label.k = "int"
    THEN LET target == s.pc + label.n IN [s EXCEPT !.pc = target - 1]
    ELSE op_jmp(s, label)

op_rcall(s, label) ==
    LET ret == s.pc + 1 IN RcallJump(PushRet(s, ret), label)

op_sbi(s, io_addr, bit) ==
    IF ~RamOk(io_addr) THEN Raise(s, "IndexError")
    ELSE LET val == read_ram(s, io_addr)
             nval == BitOr(val, Pow2(bit % 8))
         IN write_ram(s, io_addr, nval)

op_cbi(s, io_addr, bit) ==
    IF ~RamOk(io_addr) THEN Raise(s, "IndexError")
    ELSE LET val == read_ram(s, io_addr)
             nval == IF Bit(val, bit % 8) = 1 THEN val - Pow2(bit % 8) ELSE val
         IN write_ram(s, io_addr, nval)

op_ld(s, rd, addr_reg) ==
    IF ~RegOk(addr_reg) THEN Raise(s, "IndexError")
    ELSE LET addr == read_reg(s, addr_reg) IN
         IF ~RamOk(addr) THEN Raise(s, "IndexError")
         ELSE write_reg(s, rd, read_ram(s, addr))

op_st(s, addr_reg, rr) ==
    IF ~RegOk(addr_reg) \/ ~RegOk(rr) THEN Raise(s, "IndexError")
    ELSE LET addr == read_reg(s, addr_reg)
             val == read_reg(s, rr)
         IN write_ram(s, addr, val)

-----------------------------------------------------------------------------
(* Instruction handlers: conditional branches and the stack *)

op_brne_Never(s, label) == s

op_brne(s, label) == IF ~get_flag(s, SREG_Z) THEN op_jmp(s, label) ELSE s

op_breq(s, label) == IF get_flag(s, SREG_Z) THEN op_jmp(s, label) ELSE s

op_brcs(s, label) == IF get_flag(s, SREG_C) THEN op_jmp(s, label) ELSE s

op_brcc(s, label) == IF ~get_flag(s, SREG_C) THEN op_jmp(s, label) ELSE s

\* variant: BRGE deciding on N instead of S
op_brge_OnN(s, label) == IF ~get_flag(s, SREG_N) THEN op_jmp(s, label) ELSE s

op_brge(s, label) == IF ~get_flag(s, SREG_S) THEN op_jmp(s, label) ELSE s

\* variant: BRLT deciding on N instead of S
op_brlt_OnN(s, label) == IF get_flag(s, SREG_N) THEN op_jmp(s, label) ELSE s

op_brlt(s, label) == IF get_flag(s, SREG_S) THEN op_jmp(s, label) ELSE s

op_brmi(s, label) == IF get_flag(s, SREG_N) THEN op_jmp(s, label) ELSE s

op_brpl(s, label) == IF ~get_flag(s, SREG_N) THEN op_jmp(s, label) ELSE s

op_push(s, rr) ==
    IF ~RegOk(rr) THEN Raise(s, "IndexError")
    ELSE LET val == read_reg(s, rr) IN PushByte(s, val)

\* variant: POP whose stack pointer wraps from the top of RAM to address 0
op_pop_Wraps(s, rd) ==
    LET s1 == [s EXCEPT !.sp = (@ + 1) % RamSize] IN
    write_reg(s1, rd, read_ram(s1, s1.sp))

\* variant: POP reading RAM[sp] before it increments sp
op_pop_ReadFirst(s, rd) ==
    LET s1 == [s EXCEPT !.sp = @ + 1] IN
    IF ~RamOk(s1.sp) THEN Raise(s1, "IndexError")
    ELSE write_reg(s1, rd, read_ram(s, s.sp))

op_pop(s, rd) ==
    LET s1 == [s EXCEPT !.sp = @ + 1] IN
    IF ~RamOk(s1.sp) THEN Raise(s1, "IndexError")
    ELSE write_reg(s1, rd, read_ram(s1, s1.sp))

op_call(s, label) ==
    LET ret == s.pc + 1 IN op_jmp(PushRet(s, ret), label)

op_ret_OneByte(s) ==
    LET s1 == [s EXCEPT !.sp = @ + 1] IN
    IF ~RamOk(s1.sp) THEN Raise(s1, "IndexError")
    ELSE [s1 EXCEPT !.pc = read_ram(s1, s1.sp) - 1]

op_ret(s) ==
    LET s1 == [s EXCEPT !.sp = @ + 1] IN
    IF ~RamOk(s1.sp) THEN Raise(s1, "IndexError")
    ELSE LET low == read_ram(s1, s1.sp)
             s2 == [s1 EXCEPT !.sp = @ + 1]
         IN IF ~RamOk(s2.sp) THEN Raise(s2, "IndexError")
            ELSE LET high == read_ram(s2, s2.sp)
                     ret == BitOr(high * 256, low)
                 IN [s2 EXCEPT !.pc = ret - 1]

op_reti(s) ==
    LET s1 == [s EXCEPT !.sp = @ + 1] IN
    IF ~RamOk(s1.sp) THEN Raise(s1, "IndexError")
    ELSE LET low == read_ram(s1, s1.sp)
             s2 == [s1 EXCEPT !.sp = @ + 1]
         IN IF ~RamOk(s2.sp) THEN Raise(s2, "IndexError")
            ELSE LET high == read_ram(s2, s2.sp)
                     ret == BitOr(high * 256, low)
                 IN [set_flag(s2, SREG_I, TRUE) EXCEPT !.pc = ret - 1]

-----------------------------------------------------------------------------
(* Dispatch *)

\* The op_<mnemonic> methods of CPU
Handlers == {
    "nop", "ldi", "mov", "add", "and", "or", "eor", "sub", "inc", "dec",
    "mul", "adc", "clr", "ser", "div", "in", "out", "jmp", "cpi", "cp",
    "lsl", "lsr", "rol", "ror", "com", "neg", "swap", "tst", "andi",
    "ori", "eori", "subi", "sbc", "sbci", "sei", "cli", "cpse", "sbrs",
    "sbrc", "sbis", "sbic", "sbiw", "adiw", "rjmp", "rcall", "sbi", "cbi",
    "ld", "st", "brne", "breq", "brcs", "brcc", "brge", "brlt", "brmi",
    "brpl", "push", "pop", "call", "ret", "reti"}

\* instr.lower() on the mnemonics the assembler emits (upper case); any
\* other string names no handler in either case and is left as it is
Lower(m) ==
    CASE
            m = "NOP" -> "nop"
         [] m = "LDI" -> "ldi"
         [] m = "MOV" -> "mov"
         [] m = "ADD" -> "add"
         [] m = "AND" -> "and"
         [] m = "OR" -> "or"
         [] m = "EOR" -> "eor"
         [] m = "SUB" -> "sub"
         [] m = "INC" -> "inc"
         [] m = "DEC" -> "dec"
         [] m = "MUL" -> "mul"
         [] m = "ADC" -> "adc"
         [] m = "CLR" -> "clr"
         [] m = "SER" -> "ser"
         [] m = "DIV" -> "div"
         [] m = "IN" -> "in"
         [] m = "OUT" -> "out"
         [] m = "JMP" -> "jmp"
         [] m = "CPI" -> "cpi"
         [] m = "CP" -> "cp"
         [] m = "LSL" -> "lsl"
         [] m = "LSR" -> "lsr"
         [] m = "ROL" -> "rol"
         [] m = "ROR" -> "ror"
         [] m = "COM" -> "com"
         [] m = "NEG" -> "neg"
         [] m = "SWAP" -> "swap"
         [] m = "TST" -> "tst"
         [] m = "ANDI" -> "andi"
         [] m = "ORI" -> "ori"
         [] m = "EORI" -> "eori"
         [] m = "SUBI" -> "subi"
         [] m = "SBC" -> "sbc"
         [] m = "SBCI" -> "sbci"
         [] m = "SEI" -> "sei"
         [] m = "CLI" -> "cli"
         [] m = "CPSE" -> "cpse"
         [] m = "SBRS" -> "sbrs"
         [] m = "SBRC" -> "sbrc"
         [] m = "SBIS" -> "sbis"
         [] m = "SBIC" -> "sbic"
         [] m = "SBIW" -> "sbiw"
         [] m = "ADIW" -> "adiw"
         [] m = "RJMP" -> "rjmp"
         [] m = "RCALL" -> "rcall"
         [] m = "SBI" -> "sbi"
         [] m = "CBI" -> "cbi"
         [] m = "LD" -> "ld"
         [] m = "ST" -> "st"
         [] m = "BRNE" -> "brne"
         [] m = "BREQ" -> "breq"
         [] m = "BRCS" -> "brcs"
         [] m = "BRCC" -> "brcc"
         [] m = "BRGE" -> "brge"
         [] m = "BRLT" -> "brlt"
         [] m = "BRMI" -> "brmi"
         [] m = "BRPL" -> "brpl"
         [] m = "PUSH" -> "push"
         [] m = "POP" -> "pop"
         [] m = "CALL" -> "call"
         [] m = "RET" -> "ret"
         [] m = "RETI" -> "reti"
         [] OTHER -> m

\* handler(*decoded_ops) for the handler getattr(self, "op_" + h) finds
Exec(s, h, ops) ==
    CASE
         h = "nop" -> op_nop(s)
      [] h = "ldi" -> op_ldi(s, ops[1].n, ops[2].n)
      [] h = "mov" -> op_mov(s, ops[1].n, ops[2].n)
      [] h = "add" -> op_add(s, ops[1].n, ops[2].n)
      [] h = "and" -> op_and(s, ops[1].n, ops[2].n)
      [] h = "or" -> op_or(s, ops[1].n, ops[2].n)
      [] h = "eor" -> op_eor(s, ops[1].n, ops[2].n)
      [] h = "sub" -> op_sub(s, ops[1].n, ops[2].n)
      [] h = "inc" -> op_inc(s, ops[1].n)
      [] h = "dec" -> op_dec(s, ops[1].n)
      [] h = "mul" -> op_mul(s, ops[1].n, ops[2].n)
      [] h = "adc" -> op_adc(s, ops[1].n, ops[2].n)
      [] h = "clr" -> op_clr(s, ops[1].n)
      [] h = "ser" -> op_ser(s, ops[1].n)
      [] h = "div" -> op_div(s, ops[1].n, ops[2].n)
      [] h = "in" -> op_in(s, ops[1].n, ops[2].n)
      [] h = "out" -> op_out(s, ops[1].n, ops[2].n)
      [] h = "jmp" -> op_jmp(s, ops[1])
      [] h = "cpi" -> op_cpi(s, ops[1].n, ops[2].n)
      [] h = "cp" -> op_cp(s, ops[1].n, ops[2].n)
      [] h = "lsl" -> op_lsl(s, ops[1].n)
      [] h = "lsr" -> op_lsr(s, ops[1].n)
      [] h = "rol" -> op_rol(s, ops[1].n)
      [] h = "ror" -> op_ror(s, ops[1].n)
      [] h = "com" -> op_com(s, ops[1].n)
      [] h = "neg" -> op_neg(s, ops[1].n)
      [] h = "swap" -> op_swap(s, ops[1].n)
      [] h = "tst" -> op_tst(s, ops[1].n)
      [] h = "andi" -> op_andi(s, ops[1].n, ops[2].n)
      [] h = "ori" -> op_ori(s, ops[1].n, ops[2].n)
      [] h = "eori" -> op_eori(s, ops[1].n, ops[2].n)
      [] h = "subi" -> op_subi(s, ops[1].n, ops[2].n)
      [] h = "sbc" -> op_sbc(s, ops[1].n, ops[2].n)
      [] h = "sbci" -> op_sbci(s, ops[1].n, ops[2].n)
      [] h = "sei" -> op_sei(s)
      [] h = "cli" -> op_cli(s)
      [] h = "cpse" -> op_cpse(s, ops[1].n, ops[2].n)
      [] h = "sbrs" -> op_sbrs(s, ops[1].n, ops[2].n)
      [] h = "sbrc" -> op_sbrc(s, ops[1].n, ops[2].n)
      [] h = "sbis" -> op_sbis(s, ops[1].n, ops[2].n)
      [] h = "sbic" -> op_sbic(s, ops[1].n, ops[2].n)
      [] h = "sbiw" -> op_sbiw(s, ops[1].n, ops[2].n)
      [] h = "adiw" -> op_adiw(s, ops[1].n, ops[2].n)
      [] h = "rjmp" -> op_rjmp(s, ops[1])
      [] h = "rcall" -> op_rcall(s, ops[1])
      [] h = "sbi" -> op_sbi(s, ops[1].n, ops[2].n)
      [] h = "cbi" -> op_cbi(s, ops[1].n, ops[2].n)
      [] h = "ld" -> op_ld(s, ops[1].n, ops[2].n)
      [] h = "st" -> op_st(s, ops[1].n, ops[2].n)
      [] h = "brne" -> op_brne(s, ops[1])
      [] h = "breq" -> op_breq(s, ops[1])
      [] h = "brcs" -> op_brcs(s, ops[1])
      [] h = "brcc" -> op_brcc(s, ops[1])
      [] h = "brge" -> op_brge(s, ops[1])
      [] h = "brlt" -> op_brlt(s, ops[1])
      [] h = "brmi" -> op_brmi(s, ops[1])
      [] h = "brpl" -> op_brpl(s, ops[1])
      [] h = "push" -> op_push(s, ops[1].n)
      [] h = "pop" -> op_pop(s, ops[1].n)
      [] h = "call" -> op_call(s, ops[1])
      [] h = "ret" -> op_ret(s)
      [] h = "reti" -> op_reti(s)

-----------------------------------------------------------------------------
(* load_program, step, run *)

\* variant: a load that also restarts the step counter
load_program_ResetCount(s, prog, labs) ==
    [s EXCEPT !.program = prog, !.labels = labs, !.pc = 0, !.step_count = 0,
              !.ret = "None"]

\* the legacy (program, labels) form of load_program
load_program(s, prog, labs) ==
    [s EXCEPT !.program = prog, !.labels = labs, !.pc = 0, !.ret = "None"]

\* mem_snapshot of step(): the non-zero RAM cells
MemSnapshot(s) ==
    [i \in {j \in 0 .. RamSize - 1 : read_ram(s, j) # 0} |-> read_ram(s, i)]

\* variant: the record numbered with the count before the increment
StepRecord_StaleStep(s, ins, regs_snapshot, mem_snapshot) ==
    IF s.err # "none" THEN s
    ELSE [s EXCEPT
            !.step_count = @ + 1,
            !.step_trace = Append(@,
                [step |-> s.step_count,
                 pc |-> s.pc,
                 instr |-> ins,
                 regs |-> regs_snapshot,
                 mem |-> mem_snapshot,
                 sreg |-> s.sreg,
                 sp |-> s.sp]),
            !.pc = @ + 1,
            !.ret = "True"]

\* variant: the record taking the registers after the handler ran
StepRecord_PostRegs(s, ins, regs_snapshot, mem_snapshot) ==
    IF s.err # "none" THEN s
    ELSE [s EXCEPT
            !.step_count = @ + 1,
            !.step_trace = Append(@,
                [step |-> s.step_count + 1,
                 pc |-> s.pc,
                 instr |-> ins,
                 regs |-> s.regs,
                 mem |-> mem_snapshot,
                 sreg |-> s.sreg,
                 sp |-> s.sp]),
            !.pc = @ + 1,
            !.ret = "True"]

\* The part of step() after the handler returned: count, record, advance.
\* The trace keeps the mnemonic and the operands of the instruction as a
\* structure; the text rendering of step() is not modelled.
StepRecord(s, ins, regs_snapshot, mem_snapshot) ==
    IF s.err # "none" THEN s
    ELSE [s EXCEPT
            !.step_count = @ + 1,
            !.step_trace = Append(@,
                [step |-> s.step_count + 1,
                 pc |-> s.pc,
                 instr |-> ins,
                 regs |-> regs_snapshot,
                 mem |-> mem_snapshot,
                 sreg |-> s.sreg,
                 sp |-> s.sp]),
            !.pc = @ + 1,
            !.ret = "True"]

\* variant: a halted step() that leaves running as it was
step_KeepsRunning(s) ==
    IF s.pc < 0 \/ s.pc >= Len(s.program)
    THEN [s EXCEPT !.ret = "False"]
    ELSE LET ins == s.program[s.pc + 1]
             regs_snapshot == s.regs
             mem_snapshot == MemSnapshot(s)
             h == Lower(ins.instr)
         IN IF h \notin Handlers THEN Raise(s, "NotImplementedError")
            ELSE LET decoded_ops == [i \in DOMAIN ins.operands |-> Decode(ins.operands[i])]
                 IN StepRecord(Exec(s, h, decoded_ops), ins, regs_snapshot, mem_snapshot)

\* variant: an unknown mnemonic counted as a step before the error
step_CountsUnknown(s) ==
    IF s.pc < 0 \/ s.pc >= Len(s.program)
    THEN [s EXCEPT !.running = FALSE, !.ret = "False"]
    ELSE LET ins == s.program[s.pc + 1]
             regs_snapshot == s.regs
             mem_snapshot == MemSnapshot(s)
             h == Lower(ins.instr)
         IN IF h \notin Handlers
            THEN Raise([s EXCEPT !.step_count = @ + 1], "NotImplementedError")
            ELSE LET decoded_ops == [i \in DOMAIN ins.operands |-> Decode(ins.operands[i])]
                 IN StepRecord(Exec(s, h, decoded_ops), ins, regs_snapshot, mem_snapshot)

step(s) ==
    IF s.pc < 0 \/ s.pc >= Len(s.program)
    THEN [s EXCEPT !.running = FALSE, !.ret = "False"]
    ELSE LET ins == s.program[s.pc + 1]
             regs_snapshot == s.regs
             mem_snapshot == MemSnapshot(s)
             h == Lower(ins.instr)
         IN IF h \notin Handlers THEN Raise(s, "NotImplementedError")
            ELSE LET decoded_ops == [i \in DOMAIN ins.operands |-> Decode(ins.operands[i])]
                 IN StepRecord(Exec(s, h, decoded_ops), ins, regs_snapshot, mem_snapshot)

\* bytes the instruction h puts on the stack when it completes (negative:
\* takes off)
StackBytes(h) ==
    CASE h = "push" -> 1
      [] h \in {"call", "rcall"} -> 2
      [] h = "pop" -> -1
      [] h \in {"ret", "reti"} -> -2
      [] OTHER -> 0

\* History: a CALL or RCALL that completed is recorded with the pc and sp
\* it executed at; a RET or RETI that completed removes the newest record;
\* the bytes a completed instruction pushed or popped are counted.
Observe(s, s1) ==
    IF s1.err # "none" \/ s1.ret # "True" THEN s1
    ELSE LET h == Lower(s.program[s.pc + 1].instr)
             s2 == [s1 EXCEPT !.stacked = @ + StackBytes(h)]
         IN IF h \in {"call", "rcall"}
            THEN [s2 EXCEPT !.calls = Append(@, [p |-> s.pc, s |-> s.sp])]
            ELSE IF h \in {"ret", "reti"} /\ Len(s.calls) > 0
            THEN [s2 EXCEPT !.calls = SubSeq(@, 1, Len(@) - 1)]
            ELSE s2

\* step() with the history variable kept
StepH(s) == Observe(s, step(s))

RECURSIVE RunLoop(_, _, _)
\* one turn of the loop of run(), entered with s the outcome of self.step():
\* an exception propagates, "if not ok: break", else steps += 1 and loop
RunTurn(s, steps, max_steps) ==
    IF s.err # "none" THEN s
    ELSE IF s.ret # "True" THEN s
    ELSE RunLoop(s, steps + 1, max_steps)

\* variant: a loop that runs while steps <= max_steps
RunLoop_OneMore(s, steps, max_steps) ==
    IF ~(s.running /\ steps <= max_steps) THEN s
    ELSE RunTurn(StepH(s), steps, max_steps)

\* while self.running and steps < max_steps: ok = self.step() ...
RunLoop(s, steps, max_steps) ==
    IF ~(s.running /\ steps < max_steps) THEN s
    ELSE RunTurn(StepH(s), steps, max_steps)

\* run() returns None unless an exception left it
RunReturn(s) == IF s.err # "none" THEN s ELSE [s EXCEPT !.ret = "None"]

run(s, max_steps) == RunReturn(RunLoop([s EXCEPT !.running = TRUE], 0, max_steps))

-----------------------------------------------------------------------------
(* Interrupts *)

\* self.interrupts[vector_addr] = enabled, as the callers of the CPU do
set_interrupt(s, vector_addr, enabled) ==
    [s EXCEPT !.interrupts = (vector_addr :> enabled) @@ @, !.ret = "None"]

\* self.interrupts.get(vector_addr, False)
InterruptEnabled(s, vector_addr) ==
    vector_addr \in DOMAIN s.interrupts /\ s.interrupts[vector_addr]

trigger_interrupt_ToVector(s, vector_addr) ==
    IF ~InterruptEnabled(s, vector_addr) THEN [s EXCEPT !.ret = "None"]
    ELSE LET ret == s.pc + 1
             s1 == PushRet(s, ret)
         IN IF s1.err # "none" THEN s1
            ELSE [s1 EXCEPT !.pc = vector_addr, !.ret = "None"]

trigger_interrupt(s, vector_addr) ==
    IF ~InterruptEnabled(s, vector_addr) THEN [s EXCEPT !.ret = "None"]
    ELSE LET ret == s.pc + 1
             s1 == PushRet(s, ret)
         IN IF s1.err # "none" THEN s1
            ELSE [s1 EXCEPT !.pc = vector_addr - 1, !.ret = "None"]

\* trigger_interrupt() with the history variable kept: an interrupt that
\* was taken put two bytes on the stack
TriggerH(s, vector_addr) ==
    IF InterruptEnabled(s, vector_addr)
    THEN LET s1 == trigger_interrupt(s, vector_addr)
         IN IF s1.err # "none" THEN s1 ELSE [s1 EXCEPT !.stacked = @ + 2]
    ELSE trigger_interrupt(s, vector_addr)

-----------------------------------------------------------------------------
(* The state of the model as a CPU record, and back *)

Cur ==
    [regs |-> regs, ram |-> ram, sreg |-> sreg, pc |-> pc, sp |-> sp,
     step_count |-> step_count, reg_trace |-> reg_trace, mem_trace |-> mem_trace,
     step_trace |-> step_trace, ram_changes |-> ram_changes, rom |-> rom,
     rom_changes |-> rom_changes, program |-> program,
     labels |-> labels, running |-> running, interrupts |-> interrupts,
     calls |-> calls, stacked |-> stacked,
     err |-> "none", ret |-> "None"]

\* CPU.__init__ with Memory(ram_size = RamSize, rom_size = RomSize)
Fresh ==
    [regs |-> [i \in 0 .. NumRegs - 1 |-> 0],
     ram |-> [i \in 0 .. RamSize - 1 |-> 0],
     sreg |-> 0, pc |-> 0, sp |-> RamSize - 1, step_count |-> 0,
     reg_trace |-> << >>, mem_trace |-> << >>, step_trace |-> << >>,
     ram_changes |-> << >>, rom |-> [i \in 0 .. RomSize - 1 |-> 0],
     rom_changes |-> << >>, program |-> << >>, labels |-> [x \in {} |-> 0],
     running |-> FALSE, interrupts |-> [x \in {} |-> FALSE],
     calls |-> << >>, stacked |-> 0, err |-> "none", ret |-> "None"]

StateIs(s) ==
    /\ regs = s.regs /\ ram = s.ram /\ sreg = s.sreg /\ pc = s.pc /\ sp = s.sp
    /\ step_count = s.step_count /\ reg_trace = s.reg_trace
    /\ mem_trace = s.mem_trace /\ step_trace = s.step_trace
    /\ ram_changes = s.ram_changes /\ rom = s.rom /\ rom_changes = s.rom_changes
    /\ program = s.program /\ labels = s.labels
    /\ running = s.running /\ interrupts = s.interrupts
    /\ calls = s.calls /\ stacked = s.stacked

Install(s) ==
    /\ regs' = s.regs /\ ram' = s.ram /\ sreg' = s.sreg /\ pc' = s.pc /\ sp' = s.sp
    /\ step_count' = s.step_count /\ reg_trace' = s.reg_trace
    /\ mem_trace' = s.mem_trace /\ step_trace' = s.step_trace
    /\ ram_changes' = s.ram_changes /\ rom' = s.rom /\ rom_changes' = s.rom_changes
    /\ program' = s.program /\ labels' = s.labels
    /\ running' = s.running /\ interrupts' = s.interrupts
    /\ calls' = s.calls /\ stacked' = s.stacked

\* the call c(a) left the CPU as s: the next state is s, and last says how
\* the call ended
Called(c, a, s) ==
    /\ Install(s)
    /\ last' = [call |-> c, arg |-> a, err |-> s.err, ret |-> s.ret]

-----------------------------------------------------------------------------
(* Programs the CPU is loaded with *)

Prog(p, l) == [program |-> p, labels |-> l]

NoLabels == [x \in {} |-> 0]

\* LDI R0,0; LDI R1,n; loop: INC R0; DEC R1; BRNE loop
CountLoop(n) ==
    Prog(<<Ins("LDI", <<R(0), K(0)>>), Ins("LDI", <<R(1), K(n)>>),
           Ins("INC", <<R(0)>>), Ins("DEC", <<R(1)>>), Ins("BRNE", <<L("loop")>>)>>,
         "loop" :> 2)

\* CALL f; LDI R6,1; JMP done; f: LDI R5,9; RET; done:
CallRet ==
    Prog(<<Ins("CALL", <<L("f")>>), Ins("LDI", <<R(6), K(1)>>),
           Ins("JMP", <<L("done")>>), Ins("LDI", <<R(5), K(9)>>), Ins("RET", << >>)>>,
         ("f" :> 3) @@ ("done" :> 5))

\* CALL f; JMP end; f: RCALL g; RET; g: RETI; end:
Nested ==
    Prog(<<Ins("CALL", <<L("f")>>), Ins("JMP", <<L("end")>>),
           Ins("RCALL", <<L("g")>>), Ins("RET", << >>), Ins("RETI", << >>)>>,
         ("f" :> 2) @@ ("g" :> 4) @@ ("end" :> 5))

\* loop: JMP loop
Forever == Prog(<<Ins("JMP", <<L("loop")>>)>>, "loop" :> 0)

\* POP R0 on an empty stack, RET on an empty stack
PopEmpty == Prog(<<Ins("POP", <<R(0)>>), Ins("NOP", << >>)>>, NoLabels)
RetEmpty == Prog(<<Ins("LDI", <<R(16), K(7)>>), Ins("RET", << >>)>>, NoLabels)

\* a mnemonic without a handler
BadMnemonic == Prog(<<Ins("LDI", <<R(16), K(1)>>), Ins("FOO", << >>)>>, NoLabels)

\* a label that is not in the label table
BadCall == Prog(<<Ins("LDI", <<R(16), K(3)>>), Ins("CALL", <<L("nowhere")>>)>>, NoLabels)
BadJump == Prog(<<Ins("INC", <<R(2)>>), Ins("JMP", <<L("nowhere")>>)>>, NoLabels)

\* a register index and a RAM address out of range
BadReg == Prog(<<Ins("LDI", <<R(32), K(1)>>)>>, NoLabels)
BadAddr ==
    Prog(<<Ins("LDI", <<R(16), K(200)>>), Ins("LDI", <<R(17), K(5)>>),
           Ins("ST", <<R(16), R(17)>>)>>, NoLabels)

\* the empty program, and jumps and skips that leave the program
Empty == Prog(<< >>, NoLabels)
JumpOut == Prog(<<Ins("LDI", <<R(3), K(4)>>), Ins("JMP", <<K(100)>>)>>, NoLabels)
JumpNeg == Prog(<<Ins("RJMP", <<K(-5)>>), Ins("NOP", << >>)>>, NoLabels)
SkipOut == Prog(<<Ins("SER", <<R(4)>>), Ins("CPSE", <<R(4), R(4)>>)>>, NoLabels)

\* a return to an address beyond the program: the high byte is pushed
\* first, the low byte second, as CALL does
RetOut ==
    Prog(<<Ins("LDI", <<R(16), K(0)>>), Ins("PUSH", <<R(16)>>),
           Ins("LDI", <<R(17), K(50)>>), Ins("PUSH", <<R(17)>>), Ins("RET", << >>)>>,
         NoLabels)

\* a call from beyond address 255, whose return address has a high byte:
\* JMP 257; (256 x NOP); 257: CALL f; 258: JMP end; f: RET; end:
FarCall ==
    Prog([i \in 1 .. 260 |->
            CASE i = 1 -> Ins("JMP", <<K(257)>>)
              [] i = 258 -> Ins("CALL", <<L("f")>>)
              [] i = 259 -> Ins("JMP", <<L("end")>>)
              [] i = 260 -> Ins("RET", << >>)
              [] OTHER -> Ins("NOP", << >>)],
         ("f" :> 259) @@ ("end" :> 260))

\* LDI R16,127; INC R16; DIV R16,R16: the increment overflows to 128 and the
\* division by a non-zero byte follows it
DivAfterInc ==
    Prog(<<Ins("LDI", <<R(16), K(127)>>), Ins("INC", <<R(16)>>),
           Ins("DIV", <<R(16), R(16)>>)>>, NoLabels)

Programs ==
    <<CountLoop(2), CallRet, Nested, Forever, PopEmpty, RetEmpty, BadMnemonic,
      BadCall, BadJump, BadReg, BadAddr, Empty, JumpOut, JumpNeg, SkipOut,
      RetOut, FarCall, DivAfterInc>>

-----------------------------------------------------------------------------
(* The specification: a fresh CPU driven through load_program, step, run *)

Init ==
    /\ StateIs(Fresh)
    /\ last = [call |-> "init", arg |-> 0, err |-> "none", ret |-> "None"]
    /\ loads = 0
    /\ faults = 0

LoadProgram ==
    \E i \in 1 .. Len(Programs) :
        /\ loads < MaxLoads
        /\ Called("load_program", i,
                  load_program(Cur, Programs[i].program, Programs[i].labels))
        /\ loads' = loads + 1
        /\ UNCHANGED faults

Step ==
    /\ step_count < MaxSteps
    /\ faults < MaxFaults
    /\ Called("step", 0, StepH(Cur))
    /\ faults' = faults + (IF last'.err # "none" THEN 1 ELSE 0)
    /\ UNCHANGED loads

Run ==
    \E max_steps \in 0 .. MaxRun :
        /\ step_count + max_steps <= MaxSteps
        /\ faults < MaxFaults
        /\ Called("run", max_steps, run(Cur, max_steps))
        /\ faults' = faults + (IF last'.err # "none" THEN 1 ELSE 0)
        /\ UNCHANGED loads

Next == LoadProgram \/ Step \/ Run

Spec == Init /\ [][Next]_vars

-----------------------------------------------------------------------------
(* The unit specification: one short program run on a CPU whose registers  *)
(* R16 and R17 and whose status register were set by the caller before     *)
(* (write_reg, set_flag), with operand bytes and flags drawn from samples  *)

\* operand bytes: the ends of the range, the nibble and the sign boundaries
ByteVals == {0, 1, 15, 16, 127, 128, 129, 254, 255}

\* status registers: none, all, C only, T S Z, I V N
SregVals == {0, 255, 1, 82, 140}

NOP == Ins("NOP", << >>)

\* one instruction on R16, R17 / on R16, R16 / on R16 and an immediate / on R16
Alu2(m) == Prog(<<Ins(m, <<R(16), R(17)>>)>>, NoLabels)
Alu2Same(m) == Prog(<<Ins(m, <<R(16), R(16)>>)>>, NoLabels)
AluImm(m, k) == Prog(<<Ins(m, <<R(16), K(k)>>)>>, NoLabels)
Alu1(m) == Prog(<<Ins(m, <<R(16)>>)>>, NoLabels)

\* a jump or branch to the label t (index 3) or to an integer address
BranchTo(m, target) == Prog(<<Ins(m, <<target>>), NOP, NOP, NOP>>, "t" :> 3)

\* a skip instruction followed by two instructions
SkipReg(m, bit) == Prog(<<Ins(m, <<R(16), K(bit)>>), NOP, NOP>>, NoLabels)
SkipIo(m, bit) ==
    Prog(<<Ins("OUT", <<K(3), R(16)>>), Ins(m, <<K(3), K(bit)>>), NOP, NOP>>, NoLabels)
SkipCpse(rr) == Prog(<<Ins("CPSE", <<R(16), R(rr)>>), NOP, NOP>>, NoLabels)

\* PUSH R16; PUSH R17; PUSH R16 ... (n pushes), then POP R21; POP R22 ... (n pops)
PushSrc(i) == 16 + ((i - 1) % 2)
PopDst(j) == 20 + j
PushPop(n) ==
    Prog([i \in 1 .. 2 * n |->
            IF i <= n THEN Ins("PUSH", <<R(PushSrc(i))>>)
            ELSE Ins("POP", <<R(PopDst(i - n))>>)],
         NoLabels)

AddPrograms == <<Alu2("ADD"), Alu2("ADC"), Alu2Same("ADD"), Alu2Same("ADC")>>

SubPrograms ==
    <<Alu2("SUB"), Alu2("SBC"), Alu2Same("SUB"), Alu2Same("SBC"),
      AluImm("SUBI", 1), AluImm("SUBI", 128), AluImm("SUBI", 300),
      AluImm("SBCI", 0), AluImm("SBCI", 127), AluImm("SBCI", 511),
      Alu1("NEG")>>

BranchNames == <<"JMP", "BRNE", "BREQ", "BRCS", "BRCC", "BRGE", "BRLT", "BRMI", "BRPL">>

BranchPrograms ==
    [i \in 1 .. 2 * Len(BranchNames) |->
        IF i <= Len(BranchNames) THEN BranchTo(BranchNames[i], L("t"))
        ELSE BranchTo(BranchNames[i - Len(BranchNames)], K(2))]

SkipPrograms ==
    <<SkipCpse(17), SkipCpse(16),
      SkipReg("SBRS", 0), SkipReg("SBRS", 3), SkipReg("SBRS", 7),
      SkipReg("SBRC", 0), SkipReg("SBRC", 3), SkipReg("SBRC", 7),
      SkipIo("SBIS", 0), SkipIo("SBIS", 4), SkipIo("SBIS", 7),
      SkipIo("SBIC", 0), SkipIo("SBIC", 4), SkipIo("SBIC", 7)>>

StackPrograms == [n \in 1 .. MaxPush |-> PushPop(n)]

\* the instruction on R17, R16, and on R31, R17 after MOV R31,R16: the
\* register pair of the second would pass R31
Alu2Swapped(m) == Prog(<<Ins(m, <<R(17), R(16)>>)>>, NoLabels)
Alu2Top(m) ==
    Prog(<<Ins("MOV", <<R(31), R(16)>>), Ins(m, <<R(31), R(17)>>)>>, NoLabels)

MulDivPrograms ==
    <<Alu2("MUL"), Alu2Same("MUL"), Alu2Swapped("MUL"), Alu2Top("MUL"),
      Alu2("DIV"), Alu2Same("DIV"), Alu2Swapped("DIV"), Alu2Top("DIV")>>

IncDecPrograms == <<Alu1("INC"), Alu1("DEC")>>

\* as many PUSH R16 as RAM has cells, then one more instruction that pushes
StackFull(ins) ==
    Prog([i \in 1 .. RamSize + 3 |->
            IF i <= RamSize THEN Ins("PUSH", <<R(16)>>)
            ELSE IF i = RamSize + 1 THEN ins ELSE NOP],
         "t" :> RamSize + 2)

\* pushes on the full stack, pops and returns on the empty stack
StackEdgePrograms ==
    <<StackFull(Ins("PUSH", <<R(17)>>)), StackFull(Ins("CALL", <<L("t")>>)),
      StackFull(Ins("RCALL", <<L("t")>>)),
      Alu1("POP"), Prog(<<Ins("RET", << >>), NOP>>, NoLabels),
      Prog(<<Ins("RETI", << >>), NOP>>, NoLabels)>>

\* compares and tests
CmpPrograms ==
    <<Alu2("CP"), Alu2Same("CP"), Alu2Swapped("CP"),
      AluImm("CPI", 1), AluImm("CPI", 128), AluImm("CPI", 300), Alu1("TST")>>

\* logic on two registers, on a register and an immediate, and complement
LogicPrograms ==
    <<Alu2("AND"), Alu2("OR"), Alu2("EOR"), Alu2Same("EOR"),
      AluImm("ANDI", 15), AluImm("ANDI", 384), AluImm("ORI", 128),
      AluImm("ORI", 256), AluImm("EORI", 255), AluImm("EORI", 257), Alu1("COM")>>

ShiftPrograms == <<Alu1("LSL"), Alu1("LSR"), Alu1("ROL"), Alu1("ROR")>>

\* word arithmetic on the pair R17:R16, and the two constant loads
WordPrograms ==
    <<AluImm("ADIW", 1), AluImm("ADIW", 63), AluImm("SBIW", 1), AluImm("SBIW", 63),
      Alu1("CLR"), Alu1("SER")>>

\* data movement: ST/LD through the address in R16, OUT/IN through port 3
MovePrograms ==
    <<AluImm("LDI", 200), Alu2("MOV"),
      Prog(<<Ins("ST", <<R(16), R(17)>>), Ins("LD", <<R(18), R(16)>>)>>, NoLabels),
      Prog(<<Ins("OUT", <<K(3), R(17)>>), Ins("IN", <<R(18), K(3)>>)>>, NoLabels)>>

\* NOP; ADD R16,R17; SUB R16,R17: the frame of the NOP records the
\* registers and the flags the sequence starts from
AddSub ==
    Prog(<<NOP, Ins("ADD", <<R(16), R(17)>>), Ins("SUB", <<R(16), R(17)>>)>>, NoLabels)

\* MOV R31,R16; ADIW R31,k (or SBIW): the pair whose high register does not
\* exist
WordTop(m, k) ==
    Prog(<<Ins("MOV", <<R(31), R(16)>>), Ins(m, <<R(31), K(k)>>)>>, NoLabels)

\* word arithmetic with immediates at and beyond the ends of 0 .. 65535, and
\* on R31
WidePrograms ==
    <<AluImm("ADIW", 32768), AluImm("ADIW", 65537), AluImm("ADIW", -1),
      AluImm("SBIW", 32768), AluImm("SBIW", 65537), AluImm("SBIW", -1),
      WordTop("ADIW", 1), WordTop("ADIW", 65535), WordTop("SBIW", 1)>>

\* CP R16,R17; <branch> t; NOP; t: NOP
CmpBranch(m) ==
    Prog(<<Ins("CP", <<R(16), R(17)>>), Ins(m, <<L("t")>>), NOP, NOP>>, "t" :> 3)

CmpBranchPrograms ==
    <<CmpBranch("BREQ"), CmpBranch("BRCS"), CmpBranch("BRCC"), CmpBranch("BRLT"),
      CmpBranch("BRGE")>>

\* NOP; RJMP k (or RCALL k); NOP; NOP; NOP
Rel(m, k) == Prog(<<NOP, Ins(m, <<K(k)>>), NOP, NOP, NOP>>, NoLabels)

\* offsets that stay in the program, reach its end, and leave it on either
\* side
RelPrograms ==
    <<Rel("RJMP", 0), Rel("RJMP", 1), Rel("RJMP", 2), Rel("RJMP", 3), Rel("RJMP", 5),
      Rel("RJMP", -3), Rel("RCALL", 1), Rel("RCALL", 2), Rel("RCALL", 4)>>

\* a control transfer to a label no line defines
Undef(m) == Prog(<<Ins(m, <<L("nowhere")>>), NOP>>, NoLabels)

UndefPrograms ==
    <<Undef("JMP"), Undef("RJMP"), Undef("CALL"), Undef("RCALL"), Undef("BRNE"),
      Undef("BREQ"), Undef("BRCS"), Undef("BRCC"), Undef("BRGE"), Undef("BRLT"),
      Undef("BRMI"), Undef("BRPL")>>

UnitPrograms ==
    AddPrograms \o SubPrograms \o BranchPrograms \o SkipPrograms \o StackPrograms
        \o MulDivPrograms \o IncDecPrograms \o StackEdgePrograms \o CmpPrograms
        \o LogicPrograms \o ShiftPrograms \o WordPrograms \o MovePrograms \o <<AddSub>>
        \o CmpBranchPrograms \o RelPrograms \o UndefPrograms \o WidePrograms

\* sreg after set_flag(bit, Bit(f, bit)) for each of the eight bits
WithFlags(s, f) ==
    set_flag(set_flag(set_flag(set_flag(set_flag(set_flag(set_flag(set_flag(s,
        0, Bit(f, 0) = 1), 1, Bit(f, 1) = 1), 2, Bit(f, 2) = 1), 3, Bit(f, 3) = 1),
        4, Bit(f, 4) = 1), 5, Bit(f, 5) = 1), 6, Bit(f, 6) = 1), 7, Bit(f, 7) = 1)

\* write_reg(16, a); write_reg(17, b); set_flag ...; load_program(u)
Prepared(u, a, b, f) ==
    load_program(WithFlags(write_reg(write_reg(Fresh, 16, a), 17, b), f),
                 UnitPrograms[u].program, UnitPrograms[u].labels)

InitUnit ==
    \E u \in 1 .. Len(UnitPrograms) : \E a \in ByteVals, b \in ByteVals, f \in SregVals :
        /\ StateIs(Prepared(u, a, b, f))
        /\ last = [call |-> "load_program", arg |-> u, err |-> "none", ret |-> "None"]
        /\ loads = 1
        /\ faults = 0

\* step() on a unit program: these programs only go forward, so every
\* behaviour ends in the halted state without a bound on step_count
StepUnit ==
    /\ faults < MaxFaults
    /\ Called("step", 0, StepH(Cur))
    /\ faults' = faults + (IF last'.err # "none" THEN 1 ELSE 0)
    /\ UNCHANGED loads

NextUnit == StepUnit

SpecUnit == InitUnit /\ [][NextUnit]_vars

-----------------------------------------------------------------------------
(* The register accessors called directly on a fresh CPU *)

\* register indices handed to the accessors: in range, and out of range on
\* both sides
RegArgs == {0, 31, 32, -1, -33}

\* values handed to write_reg, within [-256, 511]
ValArgs == {-256, -129, -1, 0, 127, 300, 511}

\* a call of read_reg: the value it returns is left in ret
ReadRegCall(s, r) ==
    IF ~RegOk(r) THEN Raise(s, "IndexError")
    ELSE [s EXCEPT !.ret = read_reg(s, r)]

InitReg == Init

WriteReg ==
    \E r \in RegArgs, v \in ValArgs :
        /\ Len(reg_trace) < MaxWrites
        /\ faults < MaxFaults
        /\ Called("write_reg", <<r, v>>, write_reg(Cur, r, v))
        /\ faults' = faults + (IF last'.err # "none" THEN 1 ELSE 0)
        /\ UNCHANGED loads

ReadReg ==
    \E r \in RegArgs :
        /\ faults < MaxFaults
        /\ Called("read_reg", <<r>>, ReadRegCall(Cur, r))
        /\ faults' = faults + (IF last'.err # "none" THEN 1 ELSE 0)
        /\ UNCHANGED loads

NextReg == WriteReg \/ ReadReg

SpecReg == InitReg /\ [][NextReg]_vars

-----------------------------------------------------------------------------
(* The counting loop: a fresh CPU loaded with CountLoop(n) and stepped, as  *)
(* the loop of run() does, for as long as step() is willing                 *)

\* iteration counts: the small ones and the largest byte
CountArgs == (1 .. MaxCount) \cup {255}

InitLoop ==
    \E n \in CountArgs :
        /\ StateIs(load_program(Fresh, CountLoop(n).program, CountLoop(n).labels))
        /\ last = [call |-> "load_program", arg |-> n, err |-> "none", ret |-> "None"]
        /\ loads = 1
        /\ faults = 0

\* ok = self.step(): the CPU is left as step() leaves it
StepLoop ==
    \E s \in {StepH(Cur)} :
        /\ Called("step", 0, s)
        /\ faults' = faults + (IF s.err # "none" THEN 1 ELSE 0)
        /\ UNCHANGED loads

NextLoop == StepLoop

\* `while self.running and steps < max_steps: ok = self.step()`: run() keeps
\* calling step() until it returns False, so a step that can be taken is
\* taken
SpecLoop == InitLoop /\ [][NextLoop]_vars /\ WF_vars(StepLoop)

-----------------------------------------------------------------------------
(* The memory of a fresh CPU called directly: read_ram, write_ram,          *)
(* read_rom and load_rom of Memory                                          *)

\* addresses: below zero, the first and the last cell of ROM and of RAM, and
\* the sizes themselves
AddrArgs == {-1, 0, RomSize - 1, RomSize, RamSize - 1, RamSize}

\* bytes handed to write_ram and load_rom, some of them out of 0..255
MemVals == {-1, 0, 300}

\* the cycle stamp handed to write_ram
MemCycle == 3

\* ROM images: every sequence of the first and the last sample value that
\* fits in ROM, and those one byte too long
ImageArgs == UNION {[1 .. n -> {0, 300}] : n \in 0 .. RomSize + 1}

InitMem == Init

MemReadRam ==
    \E addr \in AddrArgs :
        /\ faults < MaxFaults
        /\ Called("read_ram", addr, mem_read_ram(Cur, addr))
        /\ faults' = faults + (IF last'.err # "none" THEN 1 ELSE 0)
        /\ UNCHANGED loads

MemWriteRam ==
    \E addr \in AddrArgs, value \in MemVals :
        /\ faults < MaxFaults
        /\ Len(ram_changes) < MaxWrites
        /\ Called("write_ram", <<addr, value, MemCycle>>,
                  mem_write_ram(Cur, addr, value, MemCycle))
        /\ faults' = faults + (IF last'.err # "none" THEN 1 ELSE 0)
        /\ UNCHANGED loads

MemReadRom ==
    \E addr \in AddrArgs :
        /\ faults < MaxFaults
        /\ Called("read_rom", addr, read_rom(Cur, addr))
        /\ faults' = faults + (IF last'.err # "none" THEN 1 ELSE 0)
        /\ UNCHANGED loads

MemLoadRom ==
    \E data \in ImageArgs :
        /\ faults < MaxFaults
        /\ loads < MaxLoads
        /\ Called("load_rom", data, load_rom(Cur, data))
        /\ faults' = faults + (IF last'.err # "none" THEN 1 ELSE 0)
        /\ loads' = loads + 1

NextMem == MemReadRam \/ MemWriteRam \/ MemReadRom \/ MemLoadRom

SpecMem == InitMem /\ [][NextMem]_vars

-----------------------------------------------------------------------------
(* Instructions mixed with direct calls: a program whose operands are out   *)
(* of the byte range is stepped through while the caller writes a register, *)
(* a RAM cell and the ROM with the values of MemVals in between             *)

\* LDI R16,-1; SUBI R16,300; OUT 3,R16; SBI 3,9; ADIW R16,70000; COM R17
MixProgram ==
    Prog(<<Ins("LDI", <<R(16), K(-1)>>), Ins("SUBI", <<R(16), K(300)>>),
           Ins("OUT", <<K(3), R(16)>>), Ins("SBI", <<K(3), K(9)>>),
           Ins("ADIW", <<R(16), K(70000)>>), Ins("COM", <<R(17)>>)>>, NoLabels)

InitMix ==
    /\ StateIs(load_program(Fresh, MixProgram.program, MixProgram.labels))
    /\ last = [call |-> "load_program", arg |-> 0, err |-> "none", ret |-> "None"]
    /\ loads = 0
    /\ faults = 0

\* the direct calls: loads counts those that write
MixWriteReg ==
    \E v \in MemVals :
        /\ loads < MaxLoads
        /\ Called("write_reg", <<17, v>>, write_reg(Cur, 17, v))
        /\ loads' = loads + 1
        /\ UNCHANGED faults

MixWriteRam ==
    \E v \in MemVals :
        /\ loads < MaxLoads
        /\ Called("write_ram", <<3, v, MemCycle>>, mem_write_ram(Cur, 3, v, MemCycle))
        /\ loads' = loads + 1
        /\ UNCHANGED faults

MixLoadRom ==
    \E v \in MemVals :
        /\ loads < MaxLoads
        /\ Called("load_rom", <<v>>, load_rom(Cur, <<v>>))
        /\ loads' = loads + 1
        /\ UNCHANGED faults

MixReadRam ==
    /\ Called("read_ram", 3, mem_read_ram(Cur, 3))
    /\ UNCHANGED <<loads, faults>>

NextMix == StepUnit \/ MixWriteReg \/ MixWriteRam \/ MixLoadRom \/ MixReadRam

SpecMix == InitMix /\ [][NextMix]_vars

-----------------------------------------------------------------------------
(* Interrupts and the stack: a CPU whose interrupt table was set by the     *)
(* caller is loaded with a program and driven by step, run and              *)
(* trigger_interrupt                                                        *)

\* SEI; NOP; JMP end; INC R5; RETI; end: NOP  -- the handler INC R5; RETI is
\* what vector 4 leads to, since trigger_interrupt leaves pc = vector - 1
IrqProgram ==
    Prog(<<Ins("SEI", << >>), NOP, Ins("JMP", <<L("end")>>), Ins("INC", <<R(5)>>),
           Ins("RETI", << >>), NOP>>, "end" :> 5)

IrqPrograms ==
    <<IrqProgram, CallRet, Nested, RetOut, PushPop(2), StackFull(Ins("PUSH", <<R(17)>>))>>

\* the vectors handed to trigger_interrupt: 4 is the one the caller may have
\* registered, 5 is never registered
IrqVectors == {4, 5}

\* the interrupt table the caller leaves: empty, vector 4 enabled, vector 4
\* registered as disabled
IrqSetups == {<< >>, <<TRUE>>, <<FALSE>>}

InitIrq ==
    \E u \in 1 .. Len(IrqPrograms), setup \in IrqSetups :
        /\ StateIs(load_program(IF setup = << >> THEN Fresh
                                ELSE set_interrupt(Fresh, 4, setup[1]),
                                IrqPrograms[u].program, IrqPrograms[u].labels))
        /\ last = [call |-> "load_program", arg |-> u, err |-> "none", ret |-> "None"]
        /\ loads = 0
        /\ faults = 0

RunIrq ==
    \E max_steps \in 1 .. MaxRun :
        /\ faults < MaxFaults
        /\ Called("run", max_steps, run(Cur, max_steps))
        /\ faults' = faults + (IF last'.err # "none" THEN 1 ELSE 0)
        /\ UNCHANGED loads

\* loads counts the trigger_interrupt calls
TriggerInterrupt ==
    \E v \in IrqVectors :
        /\ faults < MaxFaults
        /\ loads < MaxLoads
        /\ Called("trigger_interrupt", v, TriggerH(Cur, v))
        /\ faults' = faults + (IF last'.err # "none" THEN 1 ELSE 0)
        /\ loads' = loads + 1

NextIrq == StepUnit \/ RunIrq \/ TriggerInterrupt

SpecIrq == InitIrq /\ [][NextIrq]_vars

-----------------------------------------------------------------------------
(* What the claims speak of *)

\* the transition is a call of step() that returned True / returned False /
\* raised; a call of run() that returned
StepTrue == last'.call = "step" /\ last'.err = "none" /\ last'.ret = "True"
StepFalse == last'.call = "step" /\ last'.err = "none" /\ last'.ret = "False"
StepRaised == last'.call = "step" /\ last'.err # "none"
RunReturned == last'.call = "run" /\ last'.err = "none"

Halted(s) == s.pc < 0 \/ s.pc >= Len(s.program)

\* the instruction step() fetches in the current state
Fetched == program[pc + 1]
FetchedIs(ms) == ~Halted(Cur) /\ Fetched.instr \in ms

Flag(f, bit) == (f \div (2 ^ bit)) % 2

Min(x, y) == IF x <= y THEN x ELSE y

-----------------------------------------------------------------------------
(* C1 *)

\* C1: every step() that returns True adds 1 to step_count and appends one
\* record, whose step field is the new step_count, to step_trace, the earlier
\* records staying as they were (also over the steps of a run()); and
\* len(step_trace) = step_count in every reachable state.
C1_StepTraceCount ==
    /\ [](Len(step_trace) = step_count)
    /\ [][/\ SubSeq(step_trace', 1, Len(step_trace)) = step_trace
          /\ \A i \in Len(step_trace) + 1 .. Len(step_trace') :
                step_trace'[i].step = i
          /\ StepTrue =>
                /\ step_count' = step_count + 1
                /\ Len(step_trace') = Len(step_trace) + 1
                /\ step_trace'[Len(step_trace')].step = step_count']_vars

C1_Witness ==
    last.call = "step" /\ last.ret = "True" /\ step_count >= 3 /\ loads = 2

-----------------------------------------------------------------------------
(* C2 *)

\* C2: step() with pc < 0 or pc >= len(program) returns False, clears
\* running and changes nothing else; and step() returns False only then.
C2_HaltedStepFrame ==
    [][last'.call = "step" =>
         /\ Halted(Cur) => StepFalse
         /\ StepFalse =>
              /\ Halted(Cur)
              /\ running' = FALSE
              /\ UNCHANGED <<regs, ram, sreg, sp, pc, step_count, step_trace,
                             reg_trace, mem_trace, ram_changes, program, labels>>]_vars

\* a step() that found the pc beyond the program after a run() that had
\* used up its budget and left running set
C2_Witness ==
    /\ last.call = "step" /\ last.ret = "False" /\ ~running
    /\ step_count > 0 /\ pc > Len(program)

-----------------------------------------------------------------------------
(* C3 *)

RECURSIVE StepsToHalt(_, _)
\* the number of instructions executed from s before pc first leaves the
\* program, counted up to fuel; fuel + 1 when there are more
StepsToHalt(s, fuel) ==
    IF Halted(s) THEN 0
    ELSE IF fuel = 0 THEN 1
    ELSE 1 + StepsToHalt(step(s), fuel - 1)

\* C3: a run(max_steps) that raises nothing returns having executed exactly
\* min(max_steps, k) instructions, k the number of instructions executed
\* before pc first leaves the program: never more than max_steps, none for
\* run(0).
C3_RunBudget ==
    [][RunReturned =>
         LET executed == step_count' - step_count
             k == StepsToHalt(Cur, last'.arg)
         IN /\ executed = Min(last'.arg, k)
            /\ executed <= last'.arg
            /\ Len(step_trace') - Len(step_trace) = executed
            /\ last'.arg = 0 => executed = 0
            /\ executed < last'.arg => Halted([pc |-> pc', program |-> program'])]_vars

\* run() came back with its budget used up and the program not finished
C3_Witness ==
    /\ last.call = "run" /\ last.err = "none" /\ last.arg >= 3
    /\ running /\ ~Halted(Cur) /\ step_count >= last.arg

-----------------------------------------------------------------------------
(* C4 *)

\* C4 (as claimed): a step() that fails with a fatal error leaves pc, sp,
\* SREG, the registers, RAM, step_count and the traces as they were.
C4_StepAtomic ==
    [][StepRaised =>
         UNCHANGED <<pc, sp, sreg, regs, ram, step_count, step_trace,
                     reg_trace, mem_trace>>]_vars

-----------------------------------------------------------------------------
(* C5 *)

\* the n-th operand of the fetched instruction, a register index or a number
Op(n) == Fetched.operands[n].n

Hi(x) == (x \div 256) % 256
Lo(x) == x % 256

\* C5: ADD and ADC with a = Rd, b = Rr and carry-in c (0 for ADD, the C flag
\* for ADC) leave Rd = (a+b+c) mod 256, C = bit 8 of a+b+c, H = the carry out
\* of bit 3, N = bit 7 of the result, V = (a and b agree in bit 7 and the
\* result differs from a in bit 7), S = N xor V, Z = (result = 0), and leave
\* I and T as they were.
C5_AddFlags ==
    [][(StepTrue /\ FetchedIs({"ADD", "ADC"})) =>
         LET a == regs[Op(1)]
             b == regs[Op(2)]
             c == IF Fetched.instr = "ADC" THEN Flag(sreg, SREG_C) ELSE 0
             sum == a + b + c
             res == sum % 256
             n == Flag(res, 7)
             v == IF Flag(a, 7) = Flag(b, 7) /\ Flag(a, 7) # Flag(res, 7) THEN 1 ELSE 0
         IN /\ regs'[Op(1)] = res
            /\ Flag(sreg', SREG_C) = Flag(sum, 8)
            /\ Flag(sreg', SREG_H) = Flag((a % 16) + (b % 16) + c, 4)
            /\ Flag(sreg', SREG_N) = n
            /\ Flag(sreg', SREG_V) = v
            /\ Flag(sreg', SREG_S) = (n + v) % 2
            /\ Flag(sreg', SREG_Z) = (IF res = 0 THEN 1 ELSE 0)
            /\ Flag(sreg', SREG_I) = Flag(sreg, SREG_I)
            /\ Flag(sreg', SREG_T) = Flag(sreg, SREG_T)]_vars

\* ADC R16,R17 with R16 = 127, R17 = 0 and C, I, T set: 127 + 0 + 1 = 128
C5_Witness ==
    /\ program = Alu2("ADC").program /\ step_count = 1 /\ last.ret = "True"
    /\ step_trace[1].regs[16] = 127 /\ regs[16] = 128 /\ regs[17] = 0
    /\ Flag(sreg, SREG_V) = 1 /\ Flag(sreg, SREG_H) = 1 /\ Flag(sreg, SREG_I) = 1

-----------------------------------------------------------------------------
(* C6 *)

\* C6: SUB, SUBI, SBC, SBCI and NEG with minuend a, subtrahend b and borrow-in
\* c (the C flag for SBC and SBCI, else 0; a = 0 and b = Rd for NEG) leave the
\* destination = (a-b-c) mod 256, C = (a-b-c < 0), H = (low nibbles borrow),
\* N = bit 7 of the result, V = (a and b differ in bit 7 and the result
\* differs from a in bit 7), S = N xor V, Z = (result = 0).
C6_SubFlags ==
    [][(StepTrue /\ FetchedIs({"SUB", "SUBI", "SBC", "SBCI", "NEG"})) =>
         LET m == Fetched.instr
             a == IF m = "NEG" THEN 0 ELSE regs[Op(1)]
             b == CASE m = "NEG" -> regs[Op(1)]
                    [] m \in {"SUB", "SBC"} -> regs[Op(2)]
                    [] m \in {"SUBI", "SBCI"} -> Op(2) % 256
             c == IF m \in {"SBC", "SBCI"} THEN Flag(sreg, SREG_C) ELSE 0
             diff == a - b - c
             res == diff % 256
             n == Flag(res, 7)
             v == IF Flag(a, 7) # Flag(b, 7) /\ Flag(a, 7) # Flag(res, 7) THEN 1 ELSE 0
         IN /\ regs'[Op(1)] = res
            /\ Flag(sreg', SREG_C) = (IF diff < 0 THEN 1 ELSE 0)
            /\ Flag(sreg', SREG_H) = (IF (a % 16) - (b % 16) - c < 0 THEN 1 ELSE 0)
            /\ Flag(sreg', SREG_N) = n
            /\ Flag(sreg', SREG_V) = v
            /\ Flag(sreg', SREG_S) = (n + v) % 2
            /\ Flag(sreg', SREG_Z) = (IF res = 0 THEN 1 ELSE 0)]_vars

\* SBC R16,R17 with R16 = R17 = 16 and C set: 16 - 16 - 1 = -1
C6_Witness ==
    /\ program = Alu2("SBC").program /\ step_count = 1 /\ last.ret = "True"
    /\ step_trace[1].regs[16] = 16 /\ regs[17] = 16 /\ regs[16] = 255
    /\ Flag(sreg, SREG_C) = 1 /\ Flag(sreg, SREG_H) = 1 /\ Flag(sreg, SREG_N) = 1

-----------------------------------------------------------------------------
(* C7 *)

BranchSet == {"JMP", "BRNE", "BREQ", "BRCS", "BRCC", "BRGE", "BRLT", "BRMI", "BRPL"}

\* the condition of a jump or branch on the status register f
BranchCond(m, f) ==
    CASE m = "JMP" -> TRUE
      [] m = "BRNE" -> Flag(f, SREG_Z) = 0
      [] m = "BREQ" -> Flag(f, SREG_Z) = 1
      [] m = "BRCS" -> Flag(f, SREG_C) = 1
      [] m = "BRCC" -> Flag(f, SREG_C) = 0
      [] m = "BRGE" -> Flag(f, SREG_S) = 0
      [] m = "BRLT" -> Flag(f, SREG_S) = 1
      [] m = "BRMI" -> Flag(f, SREG_N) = 1
      [] m = "BRPL" -> Flag(f, SREG_N) = 0

\* the target an operand names: labels[L] for a label, n for an integer
Target(o) == IF o.k = "str" THEN labels[o.s] ELSE o.n

\* C7: JMP, and a conditional branch whose condition holds, make the target
\* the next instruction; a branch whose condition fails makes pc + 1 the
\* next instruction; registers, RAM, SREG and sp stay as they were.
C7_Branch ==
    [][(StepTrue /\ FetchedIs(BranchSet)) =>
         /\ pc' = IF BranchCond(Fetched.instr, sreg)
                  THEN Target(Fetched.operands[1]) ELSE pc + 1
         /\ UNCHANGED <<regs, ram, sreg, sp>>]_vars

\* BRLT 2 taken with S set and N clear
C7_Witness ==
    /\ program = BranchTo("BRLT", K(2)).program /\ step_count = 1
    /\ pc = 2 /\ Flag(sreg, SREG_S) = 1 /\ Flag(sreg, SREG_N) = 0

-----------------------------------------------------------------------------
(* C8 *)

\* C8: CALL, and RCALL with a label, executed at pc p with sp = s store the
\* return address p + 1 with its high byte at RAM[s] and its low byte at
\* RAM[s-1], leave sp = s - 2 and go to the target.  RET and RETI executed
\* with sp = s - 2 and those two bytes intact, for the newest call (p, s) not
\* yet returned, resume at p + 1 with sp = s; RET leaves SREG as it was and
\* RETI sets I and no other flag.
C8_CallReturn ==
    [][StepTrue =>
         /\ (\/ FetchedIs({"CALL"})
             \/ FetchedIs({"RCALL"}) /\ Fetched.operands[1].k = "str") =>
                /\ ram'[sp] = Hi(pc + 1)
                /\ ram'[sp - 1] = Lo(pc + 1)
                /\ sp' = sp - 2
                /\ pc' = Target(Fetched.operands[1])
                /\ sreg' = sreg
         /\ FetchedIs({"RET", "RETI"}) =>
                /\ (/\ calls # << >>
                    /\ sp = calls[Len(calls)].s - 2
                    /\ ram[calls[Len(calls)].s] = Hi(calls[Len(calls)].p + 1)
                    /\ ram[calls[Len(calls)].s - 1] = Lo(calls[Len(calls)].p + 1)) =>
                       /\ pc' = calls[Len(calls)].p + 1
                       /\ sp' = calls[Len(calls)].s
                /\ sreg' = IF Fetched.instr = "RETI" /\ Flag(sreg, SREG_I) = 0
                           THEN sreg + 128 ELSE sreg]_vars

\* CALL f; f: RCALL g; g: RETI; RET: back at the instruction after CALL f,
\* with the stack empty again and I set by RETI
C8_Witness ==
    /\ program = Nested.program /\ pc = 1 /\ calls = << >> /\ loads = 1
    /\ step_count = 4 /\ sp = RamSize - 1 /\ Flag(sreg, SREG_I) = 1
    /\ step_trace[3].instr.instr = "RETI" /\ step_trace[4].instr.instr = "RET"

-----------------------------------------------------------------------------
(* C9 *)

\* C9: each PUSH writes RAM[sp] and then decrements sp, each POP increments
\* sp and then reads RAM[sp]; after n PUSH followed by n POP the popped
\* values are the pushed values in reverse order and sp is back at its
\* value before the sequence.
C9_StackLifo ==
    /\ [](\A n \in 1 .. MaxPush :
            (program = PushPop(n).program /\ step_count = 2 * n) =>
                /\ sp = RamSize - 1
                /\ \A j \in 1 .. n : regs[PopDst(j)] = regs[PushSrc(n + 1 - j)])
    /\ [][StepTrue =>
            /\ FetchedIs({"PUSH"}) => ram'[sp] = regs[Op(1)] /\ sp' = sp - 1
            /\ FetchedIs({"POP"}) => sp' = sp + 1 /\ regs'[Op(1)] = ram[sp + 1]]_vars

\* PUSH R16; PUSH R17; POP R21; POP R22 with R16 = 1 and R17 = 255
C9_Witness ==
    /\ program = PushPop(2).program /\ step_count = 4 /\ pc = 4
    /\ regs[16] = 1 /\ regs[17] = 255 /\ regs[21] = 255 /\ regs[22] = 1
    /\ sp = RamSize - 1

-----------------------------------------------------------------------------
(* C10 *)

SkipSet == {"CPSE", "SBRS", "SBRC", "SBIS", "SBIC"}

\* the condition under which the fetched skip instruction skips
SkipCond ==
    CASE Fetched.instr = "CPSE" -> regs[Op(1)] = regs[Op(2)]
      [] Fetched.instr = "SBRS" -> Flag(regs[Op(1)], Op(2)) = 1
      [] Fetched.instr = "SBRC" -> Flag(regs[Op(1)], Op(2)) = 0
      [] Fetched.instr = "SBIS" -> Flag(ram[Op(1)], Op(2)) = 1
      [] Fetched.instr = "SBIC" -> Flag(ram[Op(1)], Op(2)) = 0

\* C10: a skip instruction executed at pc p is followed by the instruction
\* at p + 2 when its condition holds and by the one at p + 1 otherwise.
C10_Skip ==
    [][(StepTrue /\ FetchedIs(SkipSet)) =>
         pc' = IF SkipCond THEN pc + 2 ELSE pc + 1]_vars

\* OUT 3,R16; SBIS 3,7 with R16 >= 128: the instruction at 2 is skipped
C10_Witness ==
    /\ program = SkipIo("SBIS", 7).program /\ step_count = 3 /\ pc = 4
    /\ ram[3] >= 128 /\ step_trace[2].instr.instr = "SBIS"
    /\ step_trace[3].pc = 3

-----------------------------------------------------------------------------
(* C11 *)

\* the record step() appended in this transition
NewRecord == step_trace'[Len(step_trace')]

\* C11 (as claimed): the pc field of the record of a step is the index of
\* the instruction that step fetched and executed.
C11_TracePcIsFetched ==
    [][StepTrue => NewRecord.pc = pc]_vars

-----------------------------------------------------------------------------
(* C12 *)

\* C12: the record of a step holds the 32 registers as they were before the
\* instruction, the non-zero RAM cells as they were before it, and SREG and
\* sp as they are after it.
C12_TraceSnapshots ==
    [][StepTrue =>
         /\ DOMAIN NewRecord.regs = 0 .. 31
         /\ NewRecord.regs = regs
         /\ DOMAIN NewRecord.mem = {a \in DOMAIN ram : ram[a] # 0}
         /\ \A a \in DOMAIN NewRecord.mem : NewRecord.mem[a] = ram[a]
         /\ NewRecord.sreg = sreg'
         /\ NewRecord.sp = sp']_vars

\* a step that changed a register, with RAM not all zero before it
C12_Witness ==
    /\ last.call = "step" /\ last.ret = "True" /\ step_count > 0
    /\ step_trace[Len(step_trace)].regs # regs
    /\ DOMAIN step_trace[Len(step_trace)].mem # {}
    /\ step_trace[Len(step_trace)].sp # RamSize - 1

-----------------------------------------------------------------------------
(* C13 *)

\* C13: load_program(program, labels) sets pc to 0 and replaces the program
\* and the label table; registers, RAM, SREG, sp, step_count and the traces
\* stay as they were, also after instructions have been executed.
C13_LoadProgramFrame ==
    [][last'.call = "load_program" =>
         /\ pc' = 0
         /\ program' = Programs[last'.arg].program
         /\ labels' = Programs[last'.arg].labels
         /\ UNCHANGED <<regs, ram, sreg, sp, step_count, step_trace, reg_trace,
                        mem_trace>>]_vars

\* a second load after instructions ran and left the stack in use
C13_Witness ==
    /\ last.call = "load_program" /\ loads = 2 /\ pc = 0
    /\ step_count >= 2 /\ sp # RamSize - 1 /\ Len(reg_trace) > 0
    /\ program = Programs[last.arg].program

-----------------------------------------------------------------------------
(* C16 *)

\* the fetched instruction has no handler
Unimplemented == ~Halted(Cur) /\ Lower(Fetched.instr) \notin Handlers

\* C16: step() on a mnemonic without a handler raises NotImplementedError
\* and leaves pc, sp, SREG, registers, RAM, step_count and step_trace as
\* they were, so that a repeated step() meets the same instruction; run()
\* ends with that error at that instruction.
C16_UnknownMnemonic ==
    [][/\ (last'.call = "step" /\ Unimplemented) =>
              last'.err = "NotImplementedError"
       /\ (last'.call = "step" /\ last'.err = "NotImplementedError") =>
              /\ Unimplemented
              /\ UNCHANGED <<pc, sp, sreg, regs, ram, step_count, step_trace,
                             program, labels>>
       /\ (last'.call = "run" /\ last'.arg > 0 /\ Unimplemented) =>
              /\ last'.err = "NotImplementedError"
              /\ UNCHANGED <<pc, sp, sreg, regs, ram, step_count, step_trace>>
       /\ (last'.call = "run" /\ last'.err = "NotImplementedError") =>
              /\ pc' >= 0 /\ pc' < Len(program')
              /\ Lower(program'[pc' + 1].instr) \notin Handlers]_vars

\* LDI R16,1; FOO: the second step() in a row that failed on FOO
C16_Witness ==
    /\ last.call = "step" /\ last.err = "NotImplementedError" /\ faults = 2
    /\ step_count = 1 /\ pc = 1 /\ program = BadMnemonic.program

-----------------------------------------------------------------------------
(* C14 *)

\* C14: for r in 0..31, write_reg(r, v) leaves register r = v mod 256 and
\* every other register as it was, and appends <<step_count, r, v mod 256>>
\* to reg_trace exactly when the stored value changed; read_reg(r) returns
\* the register and changes nothing, so a read_reg(r) right after
\* write_reg(r, v) returns v mod 256.
C14_RegisterMasking ==
    [][/\ (last'.call = "write_reg" /\ last'.arg[1] \in 0 .. 31) =>
            LET r == last'.arg[1]
                newv == last'.arg[2] % 256
            IN /\ last'.err = "none"
               /\ regs'[r] = newv
               /\ \A q \in 0 .. 31 : q # r => regs'[q] = regs[q]
               /\ reg_trace' = IF regs[r] # newv
                               THEN Append(reg_trace, <<step_count, r, newv>>)
                               ELSE reg_trace
       /\ (last'.call = "read_reg" /\ last'.arg[1] \in 0 .. 31) =>
            /\ last'.err = "none"
            /\ last'.ret = regs[last'.arg[1]]
            /\ UNCHANGED <<regs, reg_trace>>
            /\ (last.call = "write_reg" /\ last.arg[1] = last'.arg[1]) =>
                   last'.ret = last.arg[2] % 256]_vars

\* write_reg(31, -129) then read_reg(31) returning 127, R0 written before
C14_Witness ==
    /\ last.call = "read_reg" /\ last.arg = <<31>> /\ last.ret = 127
    /\ regs[31] = 127 /\ regs[0] = 255
    /\ reg_trace = <<<<0, 0, 255>>, <<0, 31, 127>>>>

-----------------------------------------------------------------------------
(* C15 *)

\* C15 (as claimed): read_reg(r) and write_reg(r, v) with r outside 0..31,
\* above 31 or negative, fail with an error and leave every register as it
\* was.
C15_RegisterIndexRange ==
    [][(last'.call \in {"read_reg", "write_reg"} /\ last'.arg[1] \notin 0 .. 31) =>
          /\ last'.err # "none"
          /\ regs' = regs]_vars

-----------------------------------------------------------------------------
(* C17 *)

-----------------------------------------------------------------------------
(* C18 *)

-----------------------------------------------------------------------------
(* C19 *)

-----------------------------------------------------------------------------
(* C20 *)

\* C20: INC and DEC leave C, H, T and I as they were; Rd wraps modulo 256;
\* V is set iff the old value was 127 (INC) or 128 (DEC); N = bit 7 of the
\* new value; Z = (new value = 0); S = N xor V.
C20_IncDec ==
    [][(StepTrue /\ FetchedIs({"INC", "DEC"})) =>
         LET old == regs[Op(1)]
             new == IF Fetched.instr = "INC" THEN (old + 1) % 256 ELSE (old - 1) % 256
             n == Flag(new, 7)
             v == IF old = (IF Fetched.instr = "INC" THEN 127 ELSE 128) THEN 1 ELSE 0
         IN /\ regs'[Op(1)] = new
            /\ Flag(sreg', SREG_V) = v
            /\ Flag(sreg', SREG_N) = n
            /\ Flag(sreg', SREG_S) = (n + v) % 2
            /\ Flag(sreg', SREG_Z) = (IF new = 0 THEN 1 ELSE 0)
            /\ \A f \in {SREG_C, SREG_H, SREG_T, SREG_I} :
                   Flag(sreg', f) = Flag(sreg, f)]_vars

\* INC R16 with R16 = 255 and only C set before: wraps to 0, C stays
C20_Witness ==
    /\ program = Alu1("INC").program /\ step_count = 1 /\ last.ret = "True"
    /\ step_trace[1].regs[16] = 255 /\ regs[16] = 0
    /\ Flag(sreg, SREG_C) = 1 /\ Flag(sreg, SREG_Z) = 1 /\ Flag(sreg, SREG_H) = 0

-----------------------------------------------------------------------------
(* C21 .. C27: compares, logic, shifts, the sign flag, data movement, and   *)
(* the ADD/SUB round trip                                                   *)

\* C21: CP and CPI leave SREG exactly as SUB and SUBI would from the same
\* state, TST as AND Rd,Rd would; none of the three changes a register or a
\* RAM cell.
C21_CompareOnlyFlags ==
    [][(StepTrue /\ FetchedIs({"CP", "CPI", "TST"})) =>
         /\ sreg' = (CASE Fetched.instr = "CP" -> op_sub(Cur, Op(1), Op(2)).sreg
                       [] Fetched.instr = "CPI" -> op_subi(Cur, Op(1), Op(2)).sreg
                       [] Fetched.instr = "TST" -> op_and(Cur, Op(1), Op(1)).sreg)
         /\ UNCHANGED <<regs, ram>>]_vars

\* CP R16,R17 with R16 = 0, R17 = 1: the borrow and the sign are set, the
\* registers are as they were and no register write was traced
C21_Witness ==
    /\ program = Alu2("CP").program /\ step_count = 1 /\ last.ret = "True"
    /\ step_trace[1].regs[16] = 0 /\ regs[16] = 0 /\ regs[17] = 1
    /\ Flag(sreg, SREG_C) = 1 /\ Flag(sreg, SREG_N) = 1 /\ Flag(sreg, SREG_Z) = 0

\* the result of a logic instruction, from the operands it finds
LogicResult ==
    CASE Fetched.instr = "AND" -> BitAnd(regs[Op(1)], regs[Op(2)])
      [] Fetched.instr = "OR" -> BitOr(regs[Op(1)], regs[Op(2)])
      [] Fetched.instr = "EOR" -> BitXor(regs[Op(1)], regs[Op(2)])
      [] Fetched.instr = "ANDI" -> BitAnd(regs[Op(1)], Op(2) % 256)
      [] Fetched.instr = "ORI" -> BitOr(regs[Op(1)], Op(2) % 256)
      [] Fetched.instr = "EORI" -> BitXor(regs[Op(1)], Op(2) % 256)
      [] Fetched.instr = "TST" -> regs[Op(1)]
      [] Fetched.instr = "COM" -> 255 - regs[Op(1)]

\* C22: AND, OR, EOR, ANDI, ORI, EORI and TST set C = 0, V = 0, H = 0,
\* N = bit 7 of the result, S = N, Z = (result = 0); COM sets Rd to 255 - Rd
\* with the same N, V, S, Z, H and C = 1; T and I are left as they were.
C22_LogicFlags ==
    [][(StepTrue /\ FetchedIs({"AND", "OR", "EOR", "ANDI", "ORI", "EORI", "TST", "COM"})) =>
         /\ Flag(sreg', SREG_C) = (IF Fetched.instr = "COM" THEN 1 ELSE 0)
         /\ Flag(sreg', SREG_V) = 0
         /\ Flag(sreg', SREG_H) = 0
         /\ Flag(sreg', SREG_N) = Flag(LogicResult, 7)
         /\ Flag(sreg', SREG_S) = Flag(LogicResult, 7)
         /\ Flag(sreg', SREG_Z) = (IF LogicResult = 0 THEN 1 ELSE 0)
         /\ Flag(sreg', SREG_T) = Flag(sreg, SREG_T)
         /\ Flag(sreg', SREG_I) = Flag(sreg, SREG_I)
         /\ (Fetched.instr = "COM" => regs'[Op(1)] = 255 - regs[Op(1)])]_vars

\* AND R16,R17 with R16 = 255, R17 = 128 and every flag set before: C, V, H
\* and Z are cleared, N and S set, T and I stay
C22_Witness ==
    /\ program = Alu2("AND").program /\ step_count = 1 /\ last.ret = "True"
    /\ step_trace[1].regs[16] = 255 /\ regs[17] = 128
    /\ regs[16] = 128 /\ sreg = 212

\* C23: LSL and ROL move bit 7 into C, LSR and ROR bit 0; ROL and ROR feed
\* the previous C into the vacated bit; LSL has N = new bit 7, V = N xor C;
\* LSR has N = 0, V = C; ROL and ROR have N = new bit 7, V = 0; all four
\* have S = N xor V, Z = (result = 0), H = 0.
C23_Shifts ==
    [][(StepTrue /\ FetchedIs({"LSL", "LSR", "ROL", "ROR"})) =>
         LET m == Fetched.instr
             old == regs[Op(1)]
             cin == Flag(sreg, SREG_C)
             new == CASE m = "LSL" -> (old * 2) % 256
                      [] m = "LSR" -> old \div 2
                      [] m = "ROL" -> ((old * 2) % 256) + cin
                      [] m = "ROR" -> (old \div 2) + 128 * cin
             c == IF m \in {"LSL", "ROL"} THEN Flag(old, 7) ELSE Flag(old, 0)
             n == IF m = "LSR" THEN 0 ELSE Flag(new, 7)
             v == CASE m = "LSL" -> (n + c) % 2
                    [] m = "LSR" -> c
                    [] OTHER -> 0
         IN /\ regs'[Op(1)] = new
            /\ Flag(sreg', SREG_C) = c
            /\ Flag(sreg', SREG_N) = n
            /\ Flag(sreg', SREG_V) = v
            /\ Flag(sreg', SREG_S) = (n + v) % 2
            /\ Flag(sreg', SREG_Z) = (IF new = 0 THEN 1 ELSE 0)
            /\ Flag(sreg', SREG_H) = 0]_vars

\* ROR R16 with R16 = 1 and only C set before: bit 0 goes to C, the old C
\* comes in as bit 7
C23_Witness ==
    /\ program = Alu1("ROR").program /\ step_count = 1 /\ last.ret = "True"
    /\ step_trace[1].regs[16] = 1 /\ regs[16] = 128
    /\ Flag(sreg, SREG_C) = 1 /\ Flag(sreg, SREG_N) = 1 /\ Flag(sreg, SREG_S) = 1

\* the instructions that update the sign flag
SignSetters ==
    {"ADD", "ADC", "SUB", "SUBI", "SBC", "SBCI", "CP", "CPI", "CPSE", "INC", "DEC",
     "NEG", "ADIW", "SBIW", "AND", "OR", "EOR", "ANDI", "ORI", "EORI", "COM", "TST",
     "LSL", "LSR", "ROL", "ROR", "CLR", "SER"}

\* C24: after each instruction that updates the sign flag, S = N xor V,
\* whatever SREG held before.
C24_SignIsNxorV ==
    [][(StepTrue /\ FetchedIs(SignSetters)) =>
         Flag(sreg', SREG_S) = (Flag(sreg', SREG_N) + Flag(sreg', SREG_V)) % 2]_vars

\* CLR R16 started with T set, which comes with S set in both samples that
\* have it: S is cleared along with N and V, T stays
C24_Witness ==
    /\ program = Alu1("CLR").program /\ step_count = 1 /\ last.ret = "True"
    /\ Flag(sreg, SREG_T) = 1
    /\ Flag(sreg, SREG_S) = 0 /\ Flag(sreg, SREG_N) = 0 /\ Flag(sreg, SREG_V) = 0

\* C25: LDI, MOV, LD, ST, IN, OUT, PUSH and POP leave SREG as it was.
C25_MovesKeepFlags ==
    [][(StepTrue /\ FetchedIs({"LDI", "MOV", "LD", "ST", "IN", "OUT", "PUSH", "POP"})) =>
         sreg' = sreg]_vars

\* ST R16,R17; LD R18,R16 with R16 = 1, R17 = 255 and every flag set: the
\* byte went through RAM, the flags are all still set
C25_Witness ==
    /\ Len(program) = 2 /\ program[2].instr = "LD" /\ step_count = 2
    /\ last.ret = "True" /\ ram[1] = 255 /\ regs[18] = 255
    /\ step_trace[1].sreg = 255 /\ sreg = 255

\* the ADD/SUB sequence has run: the first record holds the registers and
\* flags it started from
AddSubDone == program = AddSub.program /\ step_count = 3

\* C26: with a in Rd and b in another register Rr, ADD Rd,Rr followed by
\* SUB Rd,Rr returns Rd to a.
C26_AddSubRoundTrip ==
    AddSubDone =>
        /\ step_trace[3].regs[16] = (step_trace[1].regs[16] + step_trace[1].regs[17]) % 256
        /\ regs[16] = step_trace[1].regs[16]

\* 254 + 255 wraps to 253, and 253 - 255 wraps back to 254
C26_Witness ==
    /\ AddSubDone /\ step_trace[1].regs[16] = 254 /\ step_trace[1].regs[17] = 255
    /\ step_trace[3].regs[16] = 253 /\ regs[16] = 254

\* SREG after a direct SUB R16,R17 on a CPU that was only given the
\* registers and the flags the sequence started from
DirectSub ==
    op_sub(WithFlags(write_reg(write_reg(Fresh, 16, step_trace[1].regs[16]),
                               17, step_trace[1].regs[17]),
                     step_trace[1].sreg), 16, 17).sreg

\* C27 (as claimed): C, Z and N after ADD Rd,Rr; SUB Rd,Rr are those of a
\* direct SUB Rd,Rr started with the same Rd = a, Rr = b and flags.
C27_FlagsAsDirectSub ==
    AddSubDone =>
        \A f \in {SREG_C, SREG_Z, SREG_N} : Flag(sreg, f) = Flag(DirectSub, f)

\* C27 (amended): after ADD Rd,Rr; SUB Rd,Rr started with Rd = a, Rr = b,
\* the flags are those of the SUB of b from (a + b) mod 256: C is set iff
\* the ADD carried (a + b > 255), Z iff a = 0, and N is bit 7 of a, whatever
\* SREG held before.
C27_AddSubFlags ==
    AddSubDone =>
        LET a == step_trace[1].regs[16]
            b == step_trace[1].regs[17]
        IN /\ Flag(sreg, SREG_C) = (IF a + b > 255 THEN 1 ELSE 0)
           /\ Flag(sreg, SREG_Z) = (IF a = 0 THEN 1 ELSE 0)
           /\ Flag(sreg, SREG_N) = Flag(a, 7)

\* a = 0, b = 1: the sequence ends with Z set and C, N clear, where a direct
\* SUB of 1 from 0 borrows and is negative
C27_Witness ==
    /\ AddSubDone /\ step_trace[1].regs[16] = 0 /\ step_trace[1].regs[17] = 1
    /\ Flag(sreg, SREG_Z) = 1 /\ Flag(sreg, SREG_C) = 0 /\ Flag(sreg, SREG_N) = 0
    /\ Flag(DirectSub, SREG_C) = 1 /\ Flag(DirectSub, SREG_N) = 1

-----------------------------------------------------------------------------
(* C28 *)

\* the count the loaded loop was written with: the immediate of LDI R1,n
LoopCount == program[2].operands[2].n

LoopDone ==
    /\ Halted(Cur) /\ step_count = 2 + 3 * LoopCount
    /\ regs[0] = LoopCount /\ regs[1] = 0

\* C28: for a count n in 1..255 the program LDI R0,0; LDI R1,n; loop: INC R0;
\* DEC R1; BRNE loop eventually halts, and whenever pc has left the program
\* exactly 2 + 3n instructions were executed, R0 = n and R1 = 0; with n = 5
\* the step count never passes 30.
C28_CountLoopHalts ==
    /\ <>LoopDone
    /\ [](Halted(Cur) => LoopDone)
    /\ [](LoopCount = 5 => step_count <= 30)

\* five iterations, 17 instructions: pc is past the BRNE
C28_Witness ==
    /\ LoopDone /\ LoopCount = 5 /\ step_count = 17 /\ regs[0] = 5 /\ pc = 5
    /\ last.call = "step"

-----------------------------------------------------------------------------
(* C30 *)

\* the call just made raised e
Failed(e) == last'.err = e

\* C30: read_ram, write_ram and read_rom fail with an out-of-range error for
\* every address below 0 or at or above the size of the memory they access;
\* load_rom fails when the image is longer than ROM; a failing call leaves
\* RAM, ROM and both change logs as they were.
C30_MemoryBounds ==
    [][/\ (last'.call = "read_ram" /\ (last'.arg < 0 \/ last'.arg >= RamSize))
              => Failed("IndexError")
       /\ (last'.call = "write_ram" /\ (last'.arg[1] < 0 \/ last'.arg[1] >= RamSize))
              => Failed("IndexError")
       /\ (last'.call = "read_rom" /\ (last'.arg < 0 \/ last'.arg >= RomSize))
              => Failed("IndexError")
       /\ (last'.call = "load_rom" /\ Len(last'.arg) > RomSize)
              => Failed("ValueError")
       /\ (last'.call \in {"read_ram", "write_ram", "read_rom", "load_rom"}
             /\ last'.err # "none")
              => UNCHANGED <<ram, rom, ram_changes, rom_changes>>]_vars

\* after an image was loaded and a RAM cell written, an image one byte too
\* long whose bytes all differ from ROM is refused and ROM is as the first
\* load left it
C30_Witness ==
    /\ last.call = "load_rom" /\ last.err = "ValueError"
    /\ Len(last.arg) = RomSize + 1 /\ \A i \in 1 .. RomSize : last.arg[i] = 0
    /\ \A i \in 0 .. RomSize - 1 : rom[i] = 44
    /\ Len(rom_changes) = RomSize /\ Len(ram_changes) = 1

-----------------------------------------------------------------------------
(* C31 .. C32: stored bytes and the change logs *)

IsByte(x) == x \in 0 .. 255

ByteRange ==
    /\ \A i \in DOMAIN regs : IsByte(regs[i])
    /\ \A a \in DOMAIN ram : IsByte(ram[a])
    /\ \A a \in DOMAIN rom : IsByte(rom[a])
    /\ IsByte(sreg)

\* C31: whatever integers the instructions and the write_reg, write_ram and
\* load_rom calls are given, every register, RAM cell and ROM cell and SREG
\* hold a value in 0..255; and read_ram(a) right after write_ram(a, v)
\* returns v mod 256.
C31_StoredBytes ==
    /\ []ByteRange
    /\ [][(/\ last.call = "write_ram" /\ last.err = "none"
           /\ last'.call = "read_ram" /\ last'.arg = last.arg[1]) =>
              /\ last'.err = "none"
              /\ last'.ret = last.arg[2] % 256]_vars

\* the program has run with its operands out of range, ROM was loaded with
\* 300, and the RAM cell written with -1 reads back as 255
C31_Witness ==
    /\ program = MixProgram.program /\ step_count = 6
    /\ last.call = "read_ram" /\ last.ret = 255 /\ rom[0] = 44
    /\ ram_changes[Len(ram_changes)] = <<3, 211, 255, MemCycle>>

\* the records load_rom(data) is to log, in the order of the indices: one for
\* each index whose byte differs from the one ROM holds
RomRecords(data) ==
    SelectSeq([i \in 1 .. Len(data) |-> <<i - 1, rom[i - 1], data[i] % 256, 0>>],
              LAMBDA r : r[2] # r[3])

\* C32: write_ram(addr, value, tag) appends the one record
\* (addr, old, new, tag) to ram_changes iff new = value mod 256 differs from
\* the byte old stored at addr before, and stores new; load_rom appends
\* records for exactly the indices whose byte changed; so every record of
\* either log has old # new.
C32_ChangeLogs ==
    /\ [](/\ \A i \in 1 .. Len(ram_changes) : ram_changes[i][2] # ram_changes[i][3]
          /\ \A i \in 1 .. Len(rom_changes) : rom_changes[i][2] # rom_changes[i][3])
    /\ [][/\ (last'.call = "write_ram" /\ last'.err = "none") =>
                LET addr == last'.arg[1]
                    new == last'.arg[2] % 256
                    tag == last'.arg[3]
                IN /\ ram'[addr] = new
                   /\ ram_changes' = IF new # ram[addr]
                                     THEN Append(ram_changes, <<addr, ram[addr], new, tag>>)
                                     ELSE ram_changes
          /\ (last'.call = "load_rom" /\ last'.err = "none") =>
                rom_changes' = rom_changes \o RomRecords(last'.arg)]_vars

\* a second image that repeats the first byte of ROM and changes the second:
\* of its two bytes only the second is logged; one RAM write was logged too
C32_Witness ==
    /\ last.call = "load_rom" /\ last.err = "none" /\ last.arg = <<300, 300>>
    /\ loads = 2 /\ rom_changes = <<<<0, 0, 44, 0>>, <<1, 0, 44, 0>>>>
    /\ Len(ram_changes) = 1 /\ ram_changes[1][4] = MemCycle

-----------------------------------------------------------------------------
(* C33, C40: interrupts and the stack pointer *)

C40_StackPointer ==
    faults = 0 =>
        /\ -1 <= sp /\ sp <= RamSize - 1
        /\ sp = RamSize - 1 - stacked

\* the stack filled to the last cell by six PUSH and an interrupt
C40_Witness ==
    /\ faults = 0 /\ sp = -1 /\ stacked = RamSize /\ step_count = RamSize - 2
    /\ last.call = "trigger_interrupt" /\ last.err = "none"

-----------------------------------------------------------------------------
(* C34 .. C37: branches after a compare, relative offsets, undefined labels *)

\* a byte read as a two's-complement number
Signed(x) == IF x >= 128 THEN x - 256 ELSE x

\* the branch of a CmpBranch program is fetched, the CP before it done
AfterCompare ==
    /\ \E i \in 1 .. Len(CmpBranchPrograms) : program = CmpBranchPrograms[i].program
    /\ pc = 1 /\ step_count = 1

\* C34: after CP Rd,Rr with Rd = a and Rr = b, BREQ branches iff a = b, BRCS
\* iff a < b as unsigned bytes, BRCC iff a >= b, BRLT iff a < b as signed
\* bytes, BRGE iff a >= b as signed bytes.
C34_BranchAfterCompare ==
    [][(last'.call = "step" /\ AfterCompare) =>
         LET a == regs[16]
             b == regs[17]
             m == Fetched.instr
         IN /\ StepTrue
            /\ pc' \in {2, labels["t"]}
            /\ (pc' = labels["t"]) <=>
                  CASE m = "BREQ" -> a = b
                    [] m = "BRCS" -> a < b
                    [] m = "BRCC" -> a >= b
                    [] m = "BRLT" -> Signed(a) < Signed(b)
                    [] m = "BRGE" -> Signed(a) >= Signed(b)]_vars

\* -128 < 127: BRLT taken where the difference 1 has N clear and V set
C34_Witness ==
    /\ program = CmpBranch("BRLT").program /\ step_count = 2 /\ pc = 3
    /\ regs[16] = 128 /\ regs[17] = 127
    /\ Flag(sreg, SREG_N) = 0 /\ Flag(sreg, SREG_V) = 1 /\ Flag(sreg, SREG_S) = 1

RelativeIs(m) == FetchedIs({m}) /\ Fetched.operands[1].k = "int"

\* C35: RJMP k at pc p makes p + k + 1 the next instruction; when that index
\* is outside the program the next step returns False without an error and
\* moves nothing.
C35_RelativeJump ==
    /\ [][(last'.call = "step" /\ RelativeIs("RJMP")) =>
            /\ StepTrue
            /\ pc' = pc + Op(1) + 1
            /\ UNCHANGED <<regs, ram, sreg, sp>>]_vars
    /\ [][(last'.call = "step" /\ Halted(Cur)) =>
            /\ StepFalse
            /\ UNCHANGED <<pc, regs, ram, sreg, sp, step_count>>]_vars

\* NOP; RJMP 5 left the five-instruction program at index 7, and the step
\* after it returned False
C35_Witness ==
    /\ program = Rel("RJMP", 5).program /\ pc = 7 /\ step_count = 2
    /\ last.call = "step" /\ last.ret = "False" /\ last.err = "none"

\* C36 (as claimed): RCALL k at pc p pushes p + 1 and makes the instruction
\* RJMP k would reach, p + k + 1, the next one.
C36_RelativeCall ==
    [][(last'.call = "step" /\ RelativeIs("RCALL") /\ last'.err = "none") =>
         /\ ram'[sp] = Hi(pc + 1) /\ ram'[sp - 1] = Lo(pc + 1)
         /\ sp' = sp - 2
         /\ pc' = pc + Op(1) + 1]_vars

\* the label operand of the fetched instruction is not in the label table
UndefinedTarget ==
    /\ ~Halted(Cur)
    /\ Fetched.instr \in BranchSet \cup {"RJMP", "CALL", "RCALL"}
    /\ Fetched.operands[1].k = "str"
    /\ Fetched.operands[1].s \notin DOMAIN labels

\* the transfer is attempted: always for the jumps and calls, for a branch
\* when its condition holds on the status register
Attempted ==
    Fetched.instr \in {"JMP", "RJMP", "CALL", "RCALL"} \/ BranchCond(Fetched.instr, sreg)

\* C37: a transfer to a label missing from the label table raises KeyError
\* exactly when the transfer is attempted; a branch not taken completes with
\* pc + 1 next; load_program of such a program raises nothing.
C37_LazyLabels ==
    /\ [](last.call = "load_program" => last.err = "none")
    /\ [][(last'.call = "step" /\ UndefinedTarget) =>
            IF Attempted THEN Failed("KeyError")
            ELSE StepTrue /\ pc' = pc + 1 /\ UNCHANGED <<regs, ram, sreg, sp>>]_vars

\* BREQ to an undefined label with Z clear has completed
C37_Witness ==
    /\ program = Undef("BREQ").program /\ step_count = 1 /\ pc = 1
    /\ Flag(sreg, SREG_Z) = 0 /\ last.call = "step" /\ last.ret = "True"

-----------------------------------------------------------------------------
(* C38: ADIW and SBIW *)

\* a 16-bit word read as a two's-complement number
Signed16(x) == IF x >= 32768 THEN x - 65536 ELSE x

\* the word the fetched ADIW or SBIW reads, its masked immediate, and the
\* exact sum or difference
WordIn == (IF Op(1) + 1 < 32 THEN regs[Op(1) + 1] ELSE 0) * 256 + regs[Op(1)]
WordImm == Op(2) % 65536
WordExact == IF Fetched.instr = "ADIW" THEN WordIn + WordImm ELSE WordIn - WordImm
WordSigned ==
    IF Fetched.instr = "ADIW" THEN Signed16(WordIn) + Signed16(WordImm)
    ELSE Signed16(WordIn) - Signed16(WordImm)

\* C38: ADIW and SBIW Rd,K read w = R(d+1) * 256 + Rd, store (w + K') mod
\* 65536 resp. (w - K') mod 65536 in the pair with K' = K mod 65536; C is the
\* carry out of bit 15 resp. the borrow, N bit 15 of the result, V the
\* 16-bit signed overflow, S = N xor V, Z set iff the result is 0, H clear;
\* with d = 31 the high byte is read as 0 and not written, without error.
C38_WordArithmetic ==
    [][(last'.call = "step" /\ FetchedIs({"ADIW", "SBIW"}) /\ Op(1) \in 0 .. 31) =>
         LET d == Op(1)
             r == WordExact % 65536
         IN /\ StepTrue
            /\ regs'[d] = r % 256
            /\ d + 1 < 32 => regs'[d + 1] = r \div 256
            /\ \A i \in 0 .. 31 : i \notin {d, d + 1} => regs'[i] = regs[i]
            /\ Flag(sreg', SREG_C) = (IF WordExact > 65535 \/ WordExact < 0 THEN 1 ELSE 0)
            /\ Flag(sreg', SREG_N) = r \div 32768
            /\ Flag(sreg', SREG_V) = (IF WordSigned > 32767 \/ WordSigned < -32768 THEN 1 ELSE 0)
            /\ Flag(sreg', SREG_S) = (Flag(sreg', SREG_N) + Flag(sreg', SREG_V)) % 2
            /\ Flag(sreg', SREG_Z) = (IF r = 0 THEN 1 ELSE 0)
            /\ Flag(sreg', SREG_H) = 0
            /\ Flag(sreg', SREG_T) = Flag(sreg, SREG_T)
            /\ Flag(sreg', SREG_I) = Flag(sreg, SREG_I)]_vars

\* ADIW R31,65535 on R31 = 129: the word 129 becomes 128 with a carry, and
\* only R31 is written
C38_Witness ==
    /\ program = WordTop("ADIW", 65535).program /\ step_count = 2 /\ last.err = "none"
    /\ regs[16] = 129 /\ regs[31] = 128
    /\ Flag(sreg, SREG_C) = 1 /\ Flag(sreg, SREG_N) = 0 /\ Flag(sreg, SREG_Z) = 0

-----------------------------------------------------------------------------
(* C39: the sign flag *)

\* C39 (as claimed): in every state reached from a fresh CPU by loading and
\* executing programs, S equals N xor V.
C39_SignIsNxorV ==
    Flag(sreg, SREG_S) = (Flag(sreg, SREG_N) + Flag(sreg, SREG_V)) % 2

=============================================================================
